---- MODULE Spec2Model ----
(***************************************************************************)
(* A model of BestVideoSource (bestsource, src/videosource.cpp): the frame *)
(* cache, the decoder pool, the bad-seek blacklist and the GetFrame state  *)
(* machine (GetFrame, GetFrameInternal, SeekAndDecode and                  *)
(* GetFrameLinearInternal), driven against a decoder whose seeks and       *)
(* decodes may misbehave.                                                  *)
(*                                                                         *)
(* A call is followed through the code one decoder operation at a time:   *)
(* th[t].pc is the position of caller t inside GetFrame.  All recursive    *)
(* calls of the source are tail calls (return SeekAndDecode(...), return   *)
(* GetFrameLinearInternal(...)), so a position and the arguments of the    *)
(* innermost call are the whole call state.                                *)
(***************************************************************************)
EXTENDS Integers, Sequences, FiniteSets, TLC

\* ------------------------------------------------------------------ bounds
\* Length of the indexed stream (TrackIndex.Frames.size()).
NumFrames == 560
\* Calls to GetFrame in a run of a well-behaved decoder.
MaxCalls == 4
\* Calls to GetFrame in a run with setter calls or decoder misbehaviours.
MaxMixedCalls == 2
\* Setter calls (SetMaxCacheSize, SetSeekPreRoll) per run.
MaxSets == 1
\* Decoder misbehaviours (wrong seek landing, bad, missing or no frame) in a
\* run with a budget of them.
MaxFaults == 1

\* ------------------------------------------------------- program constants
MaxVideoSources == 4
RetrySeekAttempts == 3
\* for (int64_t i = N - PreRoll; i >= 100; i--), if (SeekFrame < 100), SeekFrame - 100
SeekLimit == 100
\* Upper limit of SetSeekPreRoll
MaxPreRoll == 40
\* MatchFrames.size() >= 10
MaxMatchFrames == 10
\* CurrentFrame = INT64_MIN after a seek (scaled to the model's integers)
INT64_MIN == -1000000

\* ------------------------------------------------------------- the stream
\* A picture that occurs nowhere in the stream (a corrupt decode), and the
\* picture of "no frame" (a null AVFrame pointer).
Garbage == NumFrames + 1
NoPix == NumFrames + 2

\* Size of the buffers of a decoded frame (Frame->buf[i]->size summed).
BufSize(pix) == 1 + (pix % 2)

Frame(pix) == [pix |-> pix, size |-> BufSize(pix)]
NoFrame == [pix |-> NoPix, size |-> 0]

Slots == 0 .. (MaxVideoSources - 1)
Threads == {1, 2}

VARIABLES
    run,                \* this run: the stream's duplicates and the budgets of
                        \* calls, setter calls and decoder misbehaviours
    outputs,            \* outputs[N]: the pictures GetFrame(N) returned so far
    FrameCache,         \* [Data (front first), Size, MaxSize]
    Decoders,           \* Decoders[i]: the handle of slot i
    DecoderLastUse,     \* DecoderLastUse[i]
    DecoderSequenceNum,
    BadSeekLocations,
    LinearMode,
    PreRoll,
    th,                 \* th[t]: caller t's position and arguments
    callers,            \* the threads that call into this engine
    calls,              \* GetFrame calls made so far
    sets,               \* setter calls made so far
    faults,             \* decoder misbehaviours so far
    ix,                 \* the index on disk and the engine that opens it
    rff,                \* an engine with repeated fields and its last output
    setter              \* the last call of a setter and whether it threw

vars == <<run, outputs, FrameCache, Decoders, DecoderLastUse,
          DecoderSequenceNum, BadSeekLocations, LinearMode, PreRoll, th,
          callers, calls, sets, faults, ix, rff, setter>>

\* The stream that was indexed: frame i carries picture StreamPix(i).  In a
\* run with duplicates the frames DupFrames are pixel-identical, so their
\* hashes are equal, and so are the last frames of the stream, DupTail.
DupFrames == 100 .. 109
DupTail == (NumFrames - 7) .. (NumFrames - 1)
StreamPix(i) == IF run.dup /\ i \in DupFrames THEN 100
                ELSE IF run.dup /\ i \in DupTail THEN NumFrames - 7
                ELSE i

\* ---------------------------------------------------------------- the index
\* TrackIndex.Frames[i], as IndexTrack records it from a full decode pass.
KeyFrames == {0, 40, 100, 150, 200, 260, 300, 400, 450, 550, 555}
AV_NOPTS_VALUE == INT64_MIN
IndexKeyFrame(i) == i \in KeyFrames
IndexPTS(i) == IF i = 260 THEN AV_NOPTS_VALUE ELSE 10 * i

GetHash(F) == F.pix
IndexHash(i) == GetHash(Frame(StreamPix(i)))

Max(S) == CHOOSE x \in S : \A y \in S : y <= x
Min(S) == CHOOSE x \in S : \A y \in S : x <= y

\* ---------------------------------------------------------------- the cache
DefaultMaxSize == 1024

\* Mutant: an if where the code has a while, a single block is evicted.
ApplyMaxSize_Once(c) ==
    IF c.Size > c.MaxSize /\ Len(c.Data) > 0
    THEN [c EXCEPT !.Size = c.Size - c.Data[Len(c.Data)].Size,
                   !.Data = SubSeq(c.Data, 1, Len(c.Data) - 1)]
    ELSE c

RECURSIVE ApplyMaxSize(_)
ApplyMaxSize(c) ==
    IF c.Size > c.MaxSize /\ Len(c.Data) > 0
    THEN ApplyMaxSize([c EXCEPT !.Size = c.Size - c.Data[Len(c.Data)].Size,
                                !.Data = SubSeq(c.Data, 1, Len(c.Data) - 1)])
    ELSE c

CacheClear(c) == [c EXCEPT !.Data = <<>>, !.Size = 0]

SetMaxSize(c, Bytes) == ApplyMaxSize([c EXCEPT !.MaxSize = Bytes])

\* Mutant: the block is filed under the next frame number.
CacheBlock_NextNumber(FrameNumber, F) ==
    [FrameNumber |-> FrameNumber + 1, Frame |-> F, Size |-> F.size]

CacheBlock(FrameNumber, F) == [FrameNumber |-> FrameNumber, Frame |-> F, Size |-> F.size]

\* The position of the first block holding FrameNumber, 0 when there is none.
CacheFind(c, FrameNumber) ==
    LET hits == {k \in 1 .. Len(c.Data) : c.Data[k].FrameNumber = FrameNumber}
    IN  IF hits = {} THEN 0 ELSE Min(hits)

RemoveAt(s, k) == SubSeq(s, 1, k - 1) \o SubSeq(s, k + 1, Len(s))

\* Mutant: the old copy of the frame stays in the list.
CacheFrame_KeepOld(c, FrameNumber, F) ==
    LET blk == CacheBlock(FrameNumber, F)
    IN  ApplyMaxSize([c EXCEPT !.Data = <<blk>> \o c.Data, !.Size = c.Size + blk.Size])

CacheFrame(c, FrameNumber, F) ==
    LET k == CacheFind(c, FrameNumber)
        erased == IF k = 0 THEN c
                  ELSE [c EXCEPT !.Size = c.Size - c.Data[k].Size,
                                 !.Data = RemoveAt(c.Data, k)]
        blk == CacheBlock(FrameNumber, F)
    IN  ApplyMaxSize([erased EXCEPT !.Data = <<blk>> \o erased.Data,
                                    !.Size = erased.Size + blk.Size])

\* Mutant: a hit hands out the block at the front of the list.
CacheGetFrame_Front(c, N) ==
    LET k == CacheFind(c, N)
    IN  IF k = 0 THEN [frame |-> NoFrame, cache |-> c]
        ELSE [frame |-> c.Data[1].Frame,
              cache |-> [c EXCEPT !.Data = <<c.Data[k]>> \o RemoveAt(c.Data, k)]]

\* Mutant: a hit is taken out of the cache.
CacheGetFrame_Take(c, N) ==
    LET k == CacheFind(c, N)
    IN  IF k = 0 THEN [frame |-> NoFrame, cache |-> c]
        ELSE [frame |-> c.Data[k].Frame,
              cache |-> [c EXCEPT !.Data = RemoveAt(c.Data, k),
                                  !.Size = c.Size - c.Data[k].Size]]

\* Mutant: a hit stays where it is in the list.
CacheGetFrame_NoMove(c, N) ==
    LET k == CacheFind(c, N)
    IN  IF k = 0 THEN [frame |-> NoFrame, cache |-> c]
        ELSE [frame |-> c.Data[k].Frame, cache |-> c]

\* Cache::GetFrame: the cache after the lookup (a hit is moved to the front).
CacheGetFrame(c, N) ==
    LET k == CacheFind(c, N)
    IN  IF k = 0 THEN [frame |-> NoFrame, cache |-> c]
        ELSE [frame |-> c.Data[k].Frame,
              cache |-> [c EXCEPT !.Data = <<c.Data[k]>> \o RemoveAt(c.Data, k)]]

\* ------------------------------------------------------------- the decoder
\* Delivered counts the frames the decoder has handed out or skipped since it
\* was opened; it is kept for as long as the decoder has not seeked.
NoDecoder == [Open |-> FALSE, CurrentFrame |-> 0, Seeked |-> FALSE,
              DecodeSuccess |-> FALSE, Pos |-> 0, Delivered |-> 0]

\* new LWVideoDecoder(...): positioned before the first frame of the stream.
NewDecoder == [Open |-> TRUE, CurrentFrame |-> 0, Seeked |-> FALSE,
               DecodeSuccess |-> TRUE, Pos |-> 0, Delivered |-> 0]

\* One more frame handed out or skipped by decoder d.
DeliveredAfter(d, k) == IF d.Seeked THEN 0 ELSE d.Delivered + k

\* Mutant: the frame number follows the position in the stream, so that a
\* frame the decoder lost is counted as well.
GetNextFrame_CountsLost(d) ==
    IF ~d.DecodeSuccess THEN {[frame |-> NoFrame, dec |-> d, cost |-> 0]}
    ELSE
      LET adv(k) == [d EXCEPT !.Pos = d.Pos + k, !.CurrentFrame = d.CurrentFrame + k,
                              !.Delivered = DeliveredAfter(d, 1)]
          stop == [d EXCEPT !.DecodeSuccess = FALSE]
      IN  IF d.Pos >= NumFrames
          THEN {[frame |-> NoFrame, dec |-> stop, cost |-> 0]}
          ELSE {[frame |-> Frame(StreamPix(d.Pos)), dec |-> adv(1), cost |-> 0],
                [frame |-> NoFrame, dec |-> stop, cost |-> 1],
                [frame |-> Frame(Garbage), dec |-> adv(1), cost |-> 1]}
               \cup (IF d.Pos + 1 < NumFrames
                     THEN {[frame |-> Frame(StreamPix(d.Pos + 1)), dec |-> adv(2), cost |-> 1]}
                     ELSE {})

\* LWVideoDecoder::GetNextFrame: the possible deliveries.  cost is 1 for a
\* misbehaviour: a decode error, a corrupt picture, a frame that is missing.
GetNextFrame(d) ==
    IF ~d.DecodeSuccess THEN {[frame |-> NoFrame, dec |-> d, cost |-> 0]}
    ELSE
      LET adv(k) == [d EXCEPT !.Pos = d.Pos + k, !.CurrentFrame = d.CurrentFrame + 1,
                              !.Delivered = DeliveredAfter(d, 1)]
          stop == [d EXCEPT !.DecodeSuccess = FALSE]
      IN  IF d.Pos >= NumFrames
          THEN {[frame |-> NoFrame, dec |-> stop, cost |-> 0]}
          ELSE {[frame |-> Frame(StreamPix(d.Pos)), dec |-> adv(1), cost |-> 0],
                [frame |-> NoFrame, dec |-> stop, cost |-> 1],
                [frame |-> Frame(Garbage), dec |-> adv(1), cost |-> 1]}
               \cup (IF d.Pos + 1 < NumFrames
                     THEN {[frame |-> Frame(StreamPix(d.Pos + 1)), dec |-> adv(2), cost |-> 1]}
                     ELSE {})

\* LWVideoDecoder::SkipFrames(Count): decode and discard.
SkipFrames(d, Count) ==
    IF ~d.DecodeSuccess \/ Count <= 0 THEN {[dec |-> d, cost |-> 0]}
    ELSE
      LET avail == NumFrames - d.Pos
          go(k, lost) == [d EXCEPT !.Pos = d.Pos + k + lost,
                                    !.CurrentFrame = d.CurrentFrame + k,
                                    !.Delivered = DeliveredAfter(d, k)]
          stop(k) == [d EXCEPT !.Pos = d.Pos + k, !.CurrentFrame = d.CurrentFrame + k,
                               !.Delivered = DeliveredAfter(d, k), !.DecodeSuccess = FALSE]
      IN  IF Count > avail
          THEN {[dec |-> stop(avail), cost |-> 0]}
          ELSE {[dec |-> go(Count, 0), cost |-> 0],
                [dec |-> stop(0), cost |-> 1]}
               \cup (IF Count < avail THEN {[dec |-> go(Count, 1), cost |-> 1]} ELSE {})

\* LWVideoDecoder::Seek(PTS of index frame SF): where av_seek_frame leaves
\* the demuxer.  A backward seek lands on the anchor or on the keyframe before
\* it; landing on a later keyframe or being rejected is a misbehaviour.
Seek(d, SF) ==
    LET seeked(p, ok) == [d EXCEPT !.Seeked = TRUE, !.CurrentFrame = INT64_MIN,
                                   !.DecodeSuccess = ok, !.Pos = p, !.Delivered = 0]
        before == {k \in KeyFrames : k < SF}
        after == {k \in KeyFrames : k > SF /\ k < NumFrames}
    IN  {[ok |-> TRUE, dec |-> seeked(SF, TRUE), cost |-> 0],
         [ok |-> FALSE, dec |-> seeked(d.Pos, FALSE), cost |-> 1]}
        \cup (IF before # {} THEN {[ok |-> TRUE, dec |-> seeked(Max(before), TRUE), cost |-> 0]} ELSE {})
        \cup (IF after # {} THEN {[ok |-> TRUE, dec |-> seeked(Min(after), TRUE), cost |-> 1]} ELSE {})


\* LWVideoDecoder::GetVideoProperties: the decoder after the frame the
\* properties are read from.
GetVideoProperties(d) == (CHOOSE o \in GetNextFrame(d) : o.cost = 0).dec

\* ------------------------------------------------------------- the engine
\* The frame numbers and flags the callers of this model use.
PreRollValues == {-1, 0, 2, MaxPreRoll, MaxPreRoll + 1}
CacheSizeValues == {0, 1, 3}
Requests == {<<-1, FALSE>>, <<0, FALSE>>, <<105, FALSE>>, <<230, FALSE>>,
             <<290, FALSE>>, <<340, FALSE>>, <<340, TRUE>>, <<NumFrames - 1, FALSE>>,
             <<NumFrames, FALSE>>}
InRange == {r[1] : r \in {q \in Requests : q[1] >= 0 /\ q[1] < NumFrames}}

Idle == [pc |-> "idle", N |-> 0, SeekFrame |-> -1, Depth |-> 0,
         ForceUnseeked |-> FALSE, Index |-> 0, MatchFrames |-> <<>>,
         MatchedN |-> 0, FramesIdx |-> 0,
         RetFrame |-> NoFrame, Fresh |-> FALSE, OnSeeked |-> FALSE, Seeks |-> 0,
         Sought |-> -1,
         ret |-> NoFrame, retN |-> 0, how |-> "none", retSeeked |-> FALSE]

\* BestVideoSource::GetSeekFrame
\* Mutant: the blacklist is not consulted.
GetSeekFrame_AnyKeyFrame(N, Bad, Roll) ==
    LET S == {i \in SeekLimit .. (N - Roll) :
                 IndexKeyFrame(i) /\ IndexPTS(i) # AV_NOPTS_VALUE}
    IN  IF S = {} THEN -1 ELSE Max(S)

GetSeekFrame(N, Bad, Roll) ==
    LET S == {i \in SeekLimit .. (N - Roll) :
                 IndexKeyFrame(i) /\ IndexPTS(i) # AV_NOPTS_VALUE /\ i \notin Bad}
    IN  IF S = {} THEN -1 ELSE Max(S)

\* int EmptySlot = -1; ... if (!Decoders[i]) EmptySlot = i;
EmptySlot(D) ==
    LET S == {i \in Slots : ~D[i].Open} IN IF S = {} THEN -1 ELSE Max(S)

\* int LeastRecentlyUsed = 0; ... if (Decoders[i] && DecoderLastUse[i] <
\* DecoderLastUse[LeastRecentlyUsed]) LeastRecentlyUsed = i;
RECURSIVE LRUScan(_, _, _, _)
LRUScan(D, U, i, lru) ==
    IF i >= MaxVideoSources THEN lru
    ELSE LRUScan(D, U, i + 1, IF D[i].Open /\ U[i] < U[lru] THEN i ELSE lru)

LeastRecentlyUsed(D, U) == LRUScan(D, U, 0, 0)

\* The suitable existing decoder of GetFrameLinearInternal, -1 when none.
RECURSIVE SuitableScan(_, _, _, _, _)
SuitableScan(D, N, Force, i, idx) ==
    IF i >= MaxVideoSources THEN idx
    ELSE SuitableScan(D, N, Force, i + 1,
            IF D[i].Open /\ (~Force \/ ~D[i].Seeked) /\ D[i].CurrentFrame <= N
               /\ (idx < 0 \/ D[idx].CurrentFrame < D[i].CurrentFrame)
            THEN i ELSE idx)

\* Mutant: the first decoder that is not past N is taken.
SuitableDecoder_First(D, N, Force) ==
    LET S == {i \in Slots : D[i].Open /\ (~Force \/ ~D[i].Seeked) /\ D[i].CurrentFrame <= N}
    IN  IF S = {} THEN -1 ELSE Min(S)

SuitableDecoder(D, N, Force) == SuitableScan(D, N, Force, 0, -1)

\* return <frame> from GetFrame
Return(c, N, F, how, seeked) ==
    [Idle EXCEPT !.ret = F, !.retN = N, !.how = how, !.retSeeked = seeked]

\* Enter GetFrameLinearInternal(N, SeekFrame, Depth, ForceUnseeked).  Sought is
\* the slot of the decoder of the SeekAndDecode that passes its SeekFrame on
\* (line 1074), -1 in every other call.
EnterLinear(c, N, SeekFrame, Depth, Force) ==
    [Idle EXCEPT !.pc = "Linear", !.N = N, !.SeekFrame = SeekFrame,
                 !.Depth = Depth, !.ForceUnseeked = Force, !.Seeks = c.Seeks,
                 !.Sought = IF SeekFrame >= 0 THEN c.Index ELSE -1,
                 !.ret = c.ret, !.retN = c.retN, !.how = c.how, !.retSeeked = c.retSeeked]

\* Enter SeekAndDecode(N, SeekFrame, Decoders[Index], Depth)
EnterSeek(c, N, SeekFrame, Index, Depth) ==
    [Idle EXCEPT !.pc = "Seek", !.N = N, !.SeekFrame = SeekFrame,
                 !.Depth = Depth, !.Index = Index, !.Seeks = c.Seeks + 1,
                 !.ret = c.ret, !.retN = c.retN, !.how = c.how, !.retSeeked = c.retSeeked]

AllClosed == [i \in Slots |-> NoDecoder]

\* Mutant: N > VP.NumFrames where the code has N >= VP.NumFrames.
OutOfRange_OffByOne(N) == N < 0 \/ N > NumFrames

\* if (N < 0 || N >= VP.NumFrames) return nullptr;
OutOfRange(N) == N < 0 \/ N >= NumFrames

\* Mutant: a missing frame is not noticed.
BadFrame_NoNull(F, FrameNumber) == F # NoFrame /\ IndexHash(FrameNumber) # GetHash(F)

\* Mutant: the decoded frame is not compared with the index.
BadFrame_NoHash(F, FrameNumber) == F = NoFrame

\* if (!Frame || TrackIndex.Frames[FrameNumber].Hash != GetHash(Frame))
BadFrame(F, FrameNumber) == F = NoFrame \/ IndexHash(FrameNumber) # GetHash(F)

\* Mutant: the skip runs up to and including frame N - PreRoll.
SkipCount_OneMore(N, FrameNumber) == N - PreRoll - FrameNumber + 1

\* Decoder->SkipFrames(N - PreRoll - FrameNumber)
SkipCount(N, FrameNumber) == N - PreRoll - FrameNumber

\* Mutant: a seek frame below the limit does not keep the call from seeking.
NearStart_Never(SeekFrame) == FALSE

\* if (SeekFrame < 100) return GetFrameLinearInternal(N);
NearStart(SeekFrame) == SeekFrame < SeekLimit

\* The pictures returned so far, with the one returned now.
Record(N, F) == [outputs EXCEPT ![N] = @ \cup {F.pix}]

\* BestVideoSource::GetFrame with GetFrameInternal: the range check, the cache
\* lookup and the choice between linear decoding and seeking.
GetFrame(t, N, Linear) ==
    /\ th[t].pc = "idle"
    /\ calls < run.calls
    /\ calls' = calls + 1
    /\ UNCHANGED <<setter, rff, ix, run, callers, sets, faults, PreRoll, BadSeekLocations, LinearMode>>
    /\ IF OutOfRange(N)
       THEN /\ th' = [th EXCEPT ![t] = Return(th[t], N, NoFrame, "range", FALSE)]
            /\ UNCHANGED <<outputs, FrameCache, Decoders, DecoderLastUse, DecoderSequenceNum>>
       ELSE
         LET hit == CacheGetFrame(FrameCache, N)
             SeekFrame == GetSeekFrame(N, BadSeekLocations, PreRoll)
             Index == IF EmptySlot(Decoders) >= 0 THEN EmptySlot(Decoders)
                      ELSE LeastRecentlyUsed(Decoders, DecoderLastUse)
         IN  IF hit.frame # NoFrame
             THEN /\ FrameCache' = hit.cache
                  /\ th' = [th EXCEPT ![t] = Return(th[t], N, hit.frame, "cache", FALSE)]
                  /\ outputs' = Record(N, hit.frame)
                  /\ UNCHANGED <<Decoders, DecoderLastUse, DecoderSequenceNum>>
             ELSE IF Linear \/ LinearMode \/ NearStart(SeekFrame)
                     \/ \E i \in Slots : /\ Decoders[i].Open
                                         /\ Decoders[i].CurrentFrame <= N
                                         /\ Decoders[i].CurrentFrame >= SeekFrame
             THEN /\ th' = [th EXCEPT ![t] = EnterLinear(Idle, N, -1, 0, FALSE)]
                  /\ UNCHANGED <<outputs, FrameCache, Decoders, DecoderLastUse, DecoderSequenceNum>>
             ELSE /\ Decoders' = IF Decoders[Index].Open THEN Decoders
                                 ELSE [Decoders EXCEPT ![Index] = NewDecoder]
                  /\ DecoderLastUse' = [DecoderLastUse EXCEPT ![Index] = DecoderSequenceNum]
                  /\ DecoderSequenceNum' = DecoderSequenceNum + 1
                  /\ th' = [th EXCEPT ![t] = EnterSeek(Idle, N, SeekFrame, Index, 0)]
                  /\ UNCHANGED <<outputs, FrameCache>>

\* GetFrameLinearInternal, lines 1126-1143: pick the decoder; when none is
\* suitable a new LWVideoDecoder is constructed for the slot to be reused.
LinearPick(t) ==
    LET c == th[t]
        found == SuitableDecoder(Decoders, c.N, c.ForceUnseeked)
        Index == IF found >= 0 THEN found
                 ELSE IF EmptySlot(Decoders) >= 0 THEN EmptySlot(Decoders)
                 ELSE LeastRecentlyUsed(Decoders, DecoderLastUse)
    IN  /\ c.pc = "Linear"
        /\ IF found >= 0
           THEN /\ th' = [th EXCEPT ![t] = [c EXCEPT !.pc = "LinearLoop", !.Index = Index,
                                                     !.OnSeeked = Decoders[Index].Seeked]]
                /\ DecoderLastUse' = [DecoderLastUse EXCEPT ![Index] = DecoderSequenceNum]
                /\ DecoderSequenceNum' = DecoderSequenceNum + 1
           ELSE /\ th' = [th EXCEPT ![t] = [c EXCEPT !.pc = "LinearReset", !.Index = Index,
                                                     !.Fresh = TRUE]]
                /\ UNCHANGED <<DecoderLastUse, DecoderSequenceNum>>
        /\ UNCHANGED <<setter, rff, ix, run, outputs, FrameCache, Decoders, BadSeekLocations, LinearMode,
                       PreRoll, callers, calls, sets, faults>>

\* Decoders[Index].reset(<the new decoder>): the old handle of the slot, if
\* any, is destroyed now.  Then line 1146.
LinearReset(t) ==
    LET c == th[t]
    IN  /\ c.pc = "LinearReset"
        /\ Decoders' = [Decoders EXCEPT ![c.Index] = NewDecoder]
        /\ DecoderLastUse' = [DecoderLastUse EXCEPT ![c.Index] = DecoderSequenceNum]
        /\ DecoderSequenceNum' = DecoderSequenceNum + 1
        /\ th' = [th EXCEPT ![t] = [c EXCEPT !.pc = "LinearLoop", !.Fresh = FALSE]]
        /\ UNCHANGED <<setter, rff, ix, run, outputs, FrameCache, BadSeekLocations, LinearMode, PreRoll,
                       callers, calls, sets, faults>>

\* Mutant: the decoders of the pool are kept.
SetLinearMode_KeepsDecoders(D, cache, linear) ==
    IF ~linear
    THEN [D |-> D, cache |-> CacheClear(cache), linear |-> TRUE]
    ELSE [D |-> D, cache |-> cache, linear |-> linear]

\* Mutant: the frame cache is kept.
SetLinearMode_KeepsCache(D, cache, linear) ==
    IF ~linear
    THEN [D |-> AllClosed, cache |-> cache, linear |-> TRUE]
    ELSE [D |-> D, cache |-> cache, linear |-> linear]

\* BestVideoSource::SetLinearMode
SetLinearMode(D, cache, linear) ==
    IF ~linear
    THEN [D |-> AllClosed, cache |-> CacheClear(cache), linear |-> TRUE]
    ELSE [D |-> D, cache |-> cache, linear |-> linear]

\* Mutant: the seek is retried on the same anchor, at the same depth.
Retry_SameAnchor(c, D, cache, Bad, force) ==
    [th |-> EnterSeek(c, c.N, c.SeekFrame, c.Index, c.Depth),
     D |-> D, cache |-> cache, linear |-> LinearMode]

\* What a failed seek attempt on anchor SeekFrame leads to (the retry blocks
\* of SeekAndDecode and GetFrameLinearInternal): a record of the next
\* position, the pool, the cache and the linear-mode flag.
\*   force: the ForceUnseeked argument of the linear call after SetLinearMode.
Retry(c, D, cache, Bad, force) ==
    IF c.Depth < RetrySeekAttempts
    THEN LET SeekFrameNext == GetSeekFrame(c.SeekFrame - SeekLimit, Bad, PreRoll)
         IN  IF SeekFrameNext < SeekLimit
             THEN [th |-> EnterLinear(c, c.N, -1, 0, FALSE),
                   D |-> [D EXCEPT ![c.Index] = NoDecoder],
                   cache |-> cache, linear |-> LinearMode]
             ELSE [th |-> EnterSeek(c, c.N, SeekFrameNext, c.Index, c.Depth + 1),
                   D |-> D, cache |-> cache, linear |-> LinearMode]
    ELSE LET m == SetLinearMode(D, cache, LinearMode)
         IN  [th |-> EnterLinear(c, c.N, -1, 0, force),
              D |-> m.D, cache |-> m.cache, linear |-> m.linear]


\* The decoder takes an outcome that costs `cost` misbehaviours: within the
\* budget of the run, or freely in a run without a budget (faults then only
\* tells whether the decoder has misbehaved).
Misbehave(cost) ==
    IF run.unbounded
    THEN faults' = Min({faults + cost, run.faults})
    ELSE faults + cost <= run.faults /\ faults' = faults + cost

\* SeekAndDecode, lines 957-961: the seek itself.
SeekStep(t) ==
    LET c == th[t]
    IN  /\ c.pc = "Seek"
        /\ Decoders[c.Index].Open
        /\ \E o \in Seek(Decoders[c.Index], c.SeekFrame) :
             /\ Misbehave(o.cost)
             /\ IF o.ok
                THEN /\ Decoders' = [Decoders EXCEPT ![c.Index] = o.dec]
                     /\ th' = [th EXCEPT ![t] = [c EXCEPT !.pc = "Match", !.MatchFrames = <<>>]]
                     /\ UNCHANGED <<FrameCache, LinearMode>>
                ELSE LET m == SetLinearMode([Decoders EXCEPT ![c.Index] = o.dec],
                                            FrameCache, LinearMode)
                     IN  /\ Decoders' = m.D
                         /\ FrameCache' = m.cache
                         /\ LinearMode' = m.linear
                         /\ th' = [th EXCEPT ![t] = EnterLinear(c, c.N, -1, 0, FALSE)]
        /\ UNCHANGED <<setter, rff, ix, run, outputs, DecoderLastUse, DecoderSequenceNum,
                       BadSeekLocations, PreRoll, callers, calls, sets>>

\* Mutant: the first position that matches is taken, the others are not
\* looked for.
FindMatches_First(MF, eof) ==
    LET S == {i \in 0 .. (NumFrames - Len(MF)) :
                 \A j \in 1 .. Len(MF) : GetHash(MF[j]) = IndexHash(i + j - 1)}
    IN  IF S = {} THEN {} ELSE {Min(S)}

\* The index positions i at which the whole run of hashes in MF matches.
\* eof: the decoder delivered nothing, only the tail of the index is tried.
FindMatches(MF, eof) ==
    LET fits(i) == \A j \in 1 .. Len(MF) : GetHash(MF[j]) = IndexHash(i + j - 1)
    IN  IF eof THEN {i \in {NumFrames - Len(MF)} : fits(i)}
        ELSE {i \in 0 .. (NumFrames - Len(MF)) : fits(i)}

\* SeekAndDecode, lines 965-1080: one lap of the match loop.
MatchStep(t) ==
    LET c == th[t]
    IN  /\ c.pc = "Match"
        /\ Decoders[c.Index].Open
        /\ \E o \in GetNextFrame(Decoders[c.Index]) :
           \E MF \in {IF o.frame # NoFrame THEN Append(c.MatchFrames, o.frame)
                      ELSE c.MatchFrames} :
           \E Matches \in {FindMatches(MF, o.frame = NoFrame)} :
             LET F == o.frame
                 D1 == [Decoders EXCEPT ![c.Index] = o.dec]
                 SuitableCandidate == \E m \in Matches : m <= c.N
                 UndeterminableLocation ==
                     Cardinality(Matches) > 1 /\ (F = NoFrame \/ Len(MF) >= MaxMatchFrames)
                 Bad1 == BadSeekLocations \cup {c.SeekFrame}
             IN  /\ Misbehave(o.cost)
                 /\ IF (F = NoFrame /\ c.MatchFrames = <<>>)
                       \/ ~SuitableCandidate \/ UndeterminableLocation
                    THEN \E r \in {Retry(c, D1, FrameCache, Bad1, FALSE)} :
                         /\ BadSeekLocations' = Bad1
                         /\ Decoders' = r.D
                         /\ FrameCache' = r.cache
                         /\ LinearMode' = r.linear
                         /\ th' = [th EXCEPT ![t] = r.th]
                         /\ UNCHANGED outputs
                    ELSE IF Cardinality(Matches) = 1
                    THEN \E MatchedN \in Matches :
                         /\ Decoders' = [D1 EXCEPT ![c.Index].CurrentFrame = MatchedN + Len(MF)]
                         /\ th' = [th EXCEPT ![t] = [c EXCEPT !.pc = "MatchCache", !.MatchFrames = MF,
                                                              !.MatchedN = MatchedN, !.FramesIdx = 0]]
                         /\ UNCHANGED <<outputs, FrameCache, BadSeekLocations, LinearMode>>
                    ELSE /\ Decoders' = D1
                         /\ th' = [th EXCEPT ![t] = [c EXCEPT !.MatchFrames = MF]]
                         /\ UNCHANGED <<outputs, FrameCache, BadSeekLocations, LinearMode>>
        /\ UNCHANGED <<setter, rff, ix, run, DecoderLastUse, DecoderSequenceNum, PreRoll, callers, calls, sets>>

\* Mutant: only the frames from N on are kept.
KeepMatchFrame_NoPreRoll(N, FrameNumber) == FrameNumber >= N

\* if (FrameNumber >= N - PreRoll), line 1061
KeepMatchFrame(N, FrameNumber) == FrameNumber >= N - PreRoll

\* SeekAndDecode, lines 1058-1074: the located frames from N - PreRoll on go
\* into the cache one by one; then frame N is returned if it is among them,
\* else the linear function does the rest.
MatchCacheStep(t) ==
    LET c == th[t]
        FrameNumber == c.MatchedN + c.FramesIdx
        F == c.MatchFrames[c.FramesIdx + 1]
    IN  /\ c.pc = "MatchCache"
        /\ UNCHANGED <<setter, rff, ix, run, Decoders, DecoderLastUse, DecoderSequenceNum, BadSeekLocations,
                       LinearMode, PreRoll, callers, calls, sets, faults>>
        /\ IF c.FramesIdx < Len(c.MatchFrames)
           THEN /\ FrameCache' = IF KeepMatchFrame(c.N, FrameNumber)
                                 THEN CacheFrame(FrameCache, FrameNumber, F)
                                 ELSE FrameCache
                /\ th' = [th EXCEPT ![t] =
                       [c EXCEPT !.FramesIdx = c.FramesIdx + 1,
                                 !.RetFrame = IF KeepMatchFrame(c.N, FrameNumber) /\ FrameNumber = c.N
                                              THEN F ELSE c.RetFrame]]
                /\ UNCHANGED outputs
           ELSE IF c.RetFrame # NoFrame
           THEN /\ th' = [th EXCEPT ![t] = Return(c, c.N, c.RetFrame, "match", TRUE)]
                /\ outputs' = Record(c.N, c.RetFrame)
                /\ UNCHANGED FrameCache
           ELSE /\ th' = [th EXCEPT ![t] = EnterLinear(c, c.N, c.SeekFrame, 0, FALSE)]
                /\ UNCHANGED <<outputs, FrameCache>>

\* SeekAndDecode calls Decoder->Seek, Decoder->GetNextFrame and
\* Decoder->SetFrameNumber through its reference to the pool slot without a
\* null check.  When another caller has emptied the slot meanwhile the call
\* is undefined: the caller is taken to be lost, whatever the build does.
NullDecoder(t) ==
    LET c == th[t]
    IN  /\ c.pc \in {"Seek", "Match"}
        /\ ~Decoders[c.Index].Open
        /\ th' = [th EXCEPT ![t] = [c EXCEPT !.pc = "undefined"]]
        /\ UNCHANGED <<setter, rff, ix, run, outputs, FrameCache, Decoders, DecoderLastUse, DecoderSequenceNum,
                       BadSeekLocations, LinearMode, PreRoll, callers, calls, sets, faults>>

\* if (!Decoder->HasMoreFrames()) Decoder.reset();
ResetIfDone(D, i) == IF D[i].DecodeSuccess THEN D ELSE [D EXCEPT ![i] = NoDecoder]

\* GetFrameLinearInternal, lines 1150-1198: the loop test and one lap.
LinearStep(t) ==
    LET c == th[t]
        Decoder == Decoders[c.Index]
        FrameNumber == Decoder.CurrentFrame
    IN  /\ c.pc = "LinearLoop"
        /\ UNCHANGED <<setter, rff, ix, run, DecoderLastUse, DecoderSequenceNum, PreRoll, callers, calls, sets>>
        /\ IF ~(Decoder.Open /\ FrameNumber <= c.N /\ Decoder.DecodeSuccess)
           THEN /\ th' = [th EXCEPT ![t] = Return(c, c.N, c.RetFrame, "loop", c.OnSeeked)]
                /\ outputs' = Record(c.N, c.RetFrame)
                /\ UNCHANGED <<FrameCache, Decoders, BadSeekLocations, LinearMode, faults>>
           ELSE IF FrameNumber >= c.N - PreRoll
           THEN \E o \in GetNextFrame(Decoder) :
                  LET F == o.frame
                      D1 == [Decoders EXCEPT ![c.Index] = o.dec]
                      Bad1 == BadSeekLocations \cup {c.SeekFrame}
                      r == Retry(c, D1, FrameCache, Bad1, TRUE)
                  IN  /\ Misbehave(o.cost)
                      /\ IF BadFrame(F, FrameNumber)
                         THEN IF o.dec.Seeked
                              THEN /\ BadSeekLocations' = Bad1
                                   /\ UNCHANGED outputs
                                   /\ Decoders' = r.D
                                   /\ FrameCache' = r.cache
                                   /\ LinearMode' = r.linear
                                   /\ th' = [th EXCEPT ![t] = r.th]
                              ELSE /\ Decoders' = D1
                                   /\ th' = [th EXCEPT ![t] =
                                          Return(c, c.N, NoFrame, "unseeked", FALSE)]
                                   /\ outputs' = Record(c.N, NoFrame)
                                   /\ UNCHANGED <<FrameCache, BadSeekLocations, LinearMode>>
                         ELSE /\ Decoders' = ResetIfDone(D1, c.Index)
                              /\ FrameCache' = CacheFrame(FrameCache, FrameNumber, F)
                              /\ th' = [th EXCEPT ![t] =
                                     IF FrameNumber = c.N THEN [c EXCEPT !.RetFrame = F] ELSE c]
                              /\ UNCHANGED <<outputs, BadSeekLocations, LinearMode>>
           ELSE \E o \in SkipFrames(Decoder, SkipCount(c.N, FrameNumber)) :
                  /\ Misbehave(o.cost)
                  /\ Decoders' = ResetIfDone([Decoders EXCEPT ![c.Index] = o.dec], c.Index)
                  /\ UNCHANGED <<outputs, FrameCache, BadSeekLocations, LinearMode, th>>

\* BestVideoSource::SetMaxCacheSize
SetMaxCacheSize(Bytes) ==
    /\ \A t \in Threads : th[t].pc = "idle"
    /\ sets < run.sets
    /\ sets' = sets + 1
    /\ FrameCache' = SetMaxSize(FrameCache, Bytes)
    /\ setter' = [name |-> "SetMaxCacheSize", arg |-> Bytes, thrown |-> FALSE]
    /\ UNCHANGED <<rff, ix, run, outputs, Decoders, DecoderLastUse, DecoderSequenceNum,
                   BadSeekLocations, LinearMode, PreRoll, th, callers, calls, faults>>

\* Mutant: there is no upper limit.
PreRollOutOfRange_NoUpper(Frames) == Frames < 0

\* if (Frames < 0 || Frames > 40)
PreRollOutOfRange(Frames) == Frames < 0 \/ Frames > MaxPreRoll

\* BestVideoSource::SetSeekPreRoll: out of range throws and sets nothing.
SetSeekPreRoll(Frames) ==
    /\ \A t \in Threads : th[t].pc = "idle"
    /\ sets < run.sets
    /\ sets' = sets + 1
    /\ PreRoll' = IF PreRollOutOfRange(Frames) THEN PreRoll ELSE Frames
    /\ setter' = [name |-> "SetSeekPreRoll", arg |-> Frames,
                  thrown |-> PreRollOutOfRange(Frames)]
    /\ UNCHANGED <<rff, ix, run, outputs, FrameCache, Decoders, DecoderLastUse, DecoderSequenceNum,
                   BadSeekLocations, LinearMode, th, callers, calls, faults>>

\* ------------------------------------------------- the index on disk
\* Opens of an engine in a run of the index model, the frames of a source, and
\* the times a cache file or the source is changed from outside.
MaxOpens == 3
MaxIxFrames == 2
MaxCuts == 1

\* The version word of the header, after the magic "BS2V".
IndexVersion == 1
Magic == <<66, 83, 50, 86>>
HashSize == 8

\* Little-endian two's complement, n bytes.
RECURSIVE ToBytes(_, _)
ToBytes(v, n) == IF n = 0 THEN <<>> ELSE <<v % 256>> \o ToBytes(v \div 256, n - 1)

RECURSIVE FromBytes(_)
FromBytes(b) ==
    IF Len(b) = 1 THEN (IF b[1] >= 128 THEN b[1] - 256 ELSE b[1])
    ELSE b[1] + 256 * FromBytes(Tail(b))

WriteInt(Value) == ToBytes(Value, 4)
WriteInt64(Value) == ToBytes(Value, 8)
WriteString(Value) == WriteInt(Len(Value)) \o Value
WriteBSHeader == Magic \o WriteInt(IndexVersion)

\* A read of n bytes at pos: what is there, and where the file position is
\* afterwards (a short read stops at the end of the file).
Avail(b, pos, n) == pos + n <= Len(b)
Adv(b, pos, n) == IF Avail(b, pos, n) THEN pos + n ELSE Len(b)
Piece(b, pos, n) == SubSeq(b, pos + 1, pos + n)

\* The value of a short read is whatever the primitive leaves: junk.
ReadInt(b, pos, junk) == IF Avail(b, pos, 4) THEN FromBytes(Piece(b, pos, 4)) ELSE junk
ReadInt64(b, pos, junk) == IF Avail(b, pos, 8) THEN FromBytes(Piece(b, pos, 8)) ELSE junk
ReadString(b, pos, junk) ==
    LET Size == ReadInt(b, pos, junk)
    IN  IF Size >= 0 /\ Avail(b, pos + 4, Size) THEN Piece(b, pos + 4, Size) ELSE <<>>
AfterString(b, pos, junk) ==
    LET Size == ReadInt(b, pos, junk)
    IN  Adv(b, Adv(b, pos, 4), IF Size >= 0 THEN Size ELSE 0)
ReadBSHeader(b) == Avail(b, 0, 4) /\ Piece(b, 0, 4) = Magic /\ ReadInt(b, 4, -1) = IndexVersion

BoolInt(x) == IF x THEN 1 ELSE 0

\* Mutant: the top-field-first flag is taken from bit 0.
FlagTFF_Bit0(Flags) == Flags % 2 = 1

\* FI.KeyFrame = !!(Flags & 1); FI.TFF = !!(Flags & 2);
FlagTFF(Flags) == (Flags \div 2) % 2 = 1
FlagKeyFrame(Flags) == Flags % 2 = 1

\* static_cast<int>(Iter.KeyFrame) | (static_cast<int>(Iter.TFF) << 1)
FrameFlags(FI) == BoolInt(FI.KeyFrame) + 2 * BoolInt(FI.TFF)

\* std::map iterates in key order.
RECURSIVE SeqLess(_, _)
SeqLess(a, b) ==
    IF b = <<>> THEN FALSE
    ELSE IF a = <<>> THEN TRUE
    ELSE IF a[1] # b[1] THEN a[1] < b[1]
    ELSE SeqLess(Tail(a), Tail(b))

LeastKey(keys) == CHOOSE k \in keys : \A j \in keys : ~SeqLess(j, k)

RECURSIVE WriteOptions(_, _)
WriteOptions(opts, keys) ==
    IF keys = {} THEN <<>>
    ELSE LET k == LeastKey(keys)
         IN  WriteString(k) \o WriteString(opts[k]) \o WriteOptions(opts, keys \ {k})

RECURSIVE WriteFrames(_)
WriteFrames(Frames) ==
    IF Frames = <<>> THEN <<>>
    ELSE LET FI == Head(Frames)
         IN  FI.Hash \o WriteInt64(FI.PTS) \o WriteInt(FI.RepeatPict)
             \o WriteInt(FrameFlags(FI)) \o WriteFrames(Tail(Frames))

\* BestVideoSource::WriteVideoTrackIndex: the bytes of the cache file.
WriteVideoTrackIndex(p, SourceSize, TI) ==
    WriteBSHeader \o WriteInt64(SourceSize) \o WriteInt(p.VideoTrack)
    \o WriteInt(BoolInt(p.VariableFormat)) \o WriteString(p.HWDevice)
    \o WriteInt(Cardinality(DOMAIN p.LAVFOptions))
    \o WriteOptions(p.LAVFOptions, DOMAIN p.LAVFOptions)
    \o WriteInt64(Len(TI.Frames)) \o WriteInt64(TI.LastFrameDuration)
    \o WriteFrames(TI.Frames)

\* for (int i = 0; i < LAVFOptCount; i++) { Key = ReadString(F); IndexLAVFOptions[Key] = ReadString(F); }
RECURSIVE ReadOptions(_, _, _, _, _)
ReadOptions(b, pos, n, opts, junk) ==
    IF n <= 0 THEN [opts |-> opts, pos |-> pos]
    ELSE LET Key == ReadString(b, pos, junk)
             vpos == AfterString(b, pos, junk)
             Val == ReadString(b, vpos, junk)
         IN  ReadOptions(b, AfterString(b, vpos, junk), n - 1,
                         [k \in DOMAIN opts \cup {Key} |-> IF k = Key THEN Val ELSE opts[k]],
                         junk)

\* The loop over the frame records, lines 1340-1351: a short hash ends the
\* load, the records pushed so far stay in TrackIndex.Frames.
RECURSIVE ReadFrames(_, _, _, _, _, _)
ReadFrames(b, pos, i, Count, Frames, junk) ==
    IF i >= Count THEN [ok |-> TRUE, Frames |-> Frames]
    ELSE IF ~Avail(b, pos, HashSize) THEN [ok |-> FALSE, Frames |-> Frames]
    ELSE LET p1 == pos + HashSize
             p2 == Adv(b, p1, 8)
             p3 == Adv(b, p2, 4)
             Flags == ReadInt(b, p3, junk)
             FI == [Hash |-> Piece(b, pos, HashSize), PTS |-> ReadInt64(b, p1, junk),
                    RepeatPict |-> ReadInt(b, p2, junk),
                    KeyFrame |-> FlagKeyFrame(Flags), TFF |-> FlagTFF(Flags)]
         IN  ReadFrames(b, Adv(b, p3, 4), i + 1, Count, Append(Frames, FI), junk)

\* BestVideoSource::ReadVideoTrackIndex on the file f of the track, into the
\* TrackIndex TI of a new engine: whether the load succeeded and what
\* TrackIndex holds afterwards.
ReadVideoTrackIndex(f, p, SourceSize, TI, junk) ==
    LET b == f.bytes
        hw == 24
        oc == AfterString(b, hw, junk)
        ro == ReadOptions(b, oc + 4, ReadInt(b, oc, junk), <<>>, junk)
        rf == ReadFrames(b, ro.pos + 16, 0, ReadInt64(b, ro.pos, junk), TI.Frames, junk)
    IN  IF ~f.exists \/ ~ReadBSHeader(b)
           \/ ReadInt64(b, 8, junk) # SourceSize
           \/ ReadInt(b, 16, junk) # p.VideoTrack
           \/ ReadInt(b, 20, junk) # BoolInt(p.VariableFormat)
           \/ ReadString(b, hw, junk) # p.HWDevice
           \/ ro.opts # p.LAVFOptions
        THEN [ok |-> FALSE, TI |-> TI]
        ELSE [ok |-> rf.ok,
              TI |-> [Frames |-> rf.Frames,
                      LastFrameDuration |-> ReadInt64(b, ro.pos + 8, junk)]]

\* The frames a decode pass of a source delivers: pts, repeat_pict, the key
\* and top-field-first flags, and the hash of the picture.
IxFrame(i) ==
    IF i % 4 = 1
    THEN [Hash |-> <<1, 2, 3, 4, 5, 6, 7, 8>>, PTS |-> 0, RepeatPict |-> 0,
          KeyFrame |-> TRUE, TFF |-> FALSE]
    ELSE IF i % 4 = 2
    THEN [Hash |-> <<255, 0, 128, 7, 0, 0, 0, 200>>, PTS |-> AV_NOPTS_VALUE, RepeatPict |-> 1,
          KeyFrame |-> FALSE, TFF |-> TRUE]
    ELSE IF i % 4 = 3
    THEN [Hash |-> <<0, 0, 0, 0, 0, 0, 0, 0>>, PTS |-> 3003, RepeatPict |-> 0,
          KeyFrame |-> TRUE, TFF |-> TRUE]
    ELSE [Hash |-> <<9, 9, 9, 9, 9, 9, 9, 9>>, PTS |-> 4004, RepeatPict |-> -1,
          KeyFrame |-> FALSE, TFF |-> FALSE]

\* The media files a source path can hold: size in bytes, the frames, and the
\* duration of the last frame; one of them has no frame in the track.
IxSources ==
    {[size |-> m[1], duration |-> m[2], frames |-> [i \in 1..n |-> IxFrame(i + m[3])]] :
        m \in {<<5, 0, 0>>, <<300, 1001, 2>>, <<77, 40, 3>>}, n \in 1..MaxIxFrames}
    \cup {[size |-> 5, duration |-> 0, frames |-> <<>>]}

NoOptions == [k \in {} |-> <<>>]
IxBase == [VideoTrack |-> 0, VariableFormat |-> FALSE, HWDevice |-> <<>>, LAVFOptions |-> NoOptions]

\* The options an engine is opened with; "cuda", and {"k": "v"}.
IxParams ==
    {IxBase,
     [IxBase EXCEPT !.VideoTrack = 1],
     [IxBase EXCEPT !.VariableFormat = TRUE],
     [IxBase EXCEPT !.HWDevice = <<99, 117, 100, 97>>],
     [IxBase EXCEPT !.LAVFOptions = [k \in {<<107>>} |-> <<118>>]]}

IxTracks == {p.VideoTrack : p \in IxParams}

\* What a read of fewer bytes than asked for can leave in the value.
ShortReadValues == {-1, 0}

NoTrackIndex == [Frames |-> <<>>, LastFrameDuration |-> 0]
NoFile == [exists |-> FALSE, bytes |-> <<>>]
NoRecord == [valid |-> FALSE, params |-> IxBase, size |-> 0, TI |-> NoTrackIndex]

\* No engine, no cache file: before the first open of source src.
\* written[k] remembers what the last complete write of the file of track k
\* held, until the file is damaged; had is that record of the file the
\* engine was opened on.
IxStart(src) ==
    [source |-> src, files |-> [k \in IxTracks |-> NoFile],
     written |-> [k \in IxTracks |-> NoRecord],
     open |-> FALSE, params |-> IxBase, TrackIndex |-> NoTrackIndex,
     progress |-> 0, decoded |-> FALSE, opens |-> 0, cuts |-> 0, had |-> NoRecord]

engine == <<run, outputs, FrameCache, Decoders, DecoderLastUse, DecoderSequenceNum,
            BadSeekLocations, LinearMode, PreRoll, th, callers, calls, sets, faults,
            setter>>

\* Mutant: the decode pass runs twice.
IndexTrack_Twice(TI, src) ==
    [TI |-> [Frames |-> TI.Frames \o src.frames \o src.frames,
             LastFrameDuration |-> src.duration],
     progress |-> 2 * (Len(src.frames) + 1)]

\* BestVideoSource::IndexTrack with a progress callback: the decode pass
\* appends to TrackIndex.Frames and reports once per frame and once at the end.
IndexTrack(TI, src) ==
    [TI |-> [Frames |-> TI.Frames \o src.frames, LastFrameDuration |-> src.duration],
     progress |-> Len(src.frames) + 1]

\* The constructor, lines 773-810, on the cache file of the track: load the
\* index, or else index the track and write the file.  It throws when
\* IndexTrack leaves no record, before the file is written, and when the
\* first record has a negative repeat_pict.
OpenSource(p) ==
    /\ ~ix.open
    /\ ix.opens < MaxOpens
    /\ \E junk \in ShortReadValues :
         \E r \in {ReadVideoTrackIndex(ix.files[p.VideoTrack], p, ix.source.size,
                                       NoTrackIndex, junk)} :
           \E it \in {IndexTrack(r.TI, ix.source)} :
             \E TI \in {IF r.ok THEN r.TI ELSE it.TI} :
               ix' = [ix EXCEPT
                        !.opens = @ + 1,
                        !.params = p,
                        !.had = ix.written[p.VideoTrack],
                        !.TrackIndex = TI,
                        !.progress = IF r.ok THEN 0 ELSE it.progress,
                        !.decoded = ~r.ok,
                        !.files[p.VideoTrack] =
                            IF r.ok \/ TI.Frames = <<>> THEN @
                            ELSE [exists |-> TRUE,
                                  bytes |-> WriteVideoTrackIndex(p, ix.source.size, TI)],
                        !.written[p.VideoTrack] =
                            IF r.ok \/ TI.Frames = <<>> THEN @
                            ELSE [valid |-> TRUE, params |-> p, size |-> ix.source.size,
                                  TI |-> TI],
                        !.open = TI.Frames # <<>> /\ TI.Frames[1].RepeatPict >= 0]
    /\ UNCHANGED <<engine, rff>>

\* The engine is destroyed.
CloseSource ==
    /\ ix.open
    /\ ix' = [ix EXCEPT !.open = FALSE, !.TrackIndex = NoTrackIndex]
    /\ UNCHANGED <<engine, rff>>

\* The cache file of a track, as the engine wrote it, loses its last n bytes,
\* all of them bytes of its frame records.
TruncateFile(k) ==
    /\ ~ix.open
    /\ ix.files[k].exists
    /\ ix.written[k].valid
    /\ ix.cuts < MaxCuts /\ ix.opens < MaxOpens
    /\ \E n \in 1..((HashSize + 16) * Len(ix.written[k].TI.Frames)) :
         ix' = [ix EXCEPT !.cuts = @ + 1,
                          !.files[k].bytes = SubSeq(@, 1, Len(@) - n),
                          !.written[k] = NoRecord]
    /\ UNCHANGED <<engine, rff>>

\* The cache file of track k is copied to the name of the cache file of
\* track j.
CopyFile(k, j) ==
    /\ ~ix.open
    /\ k # j
    /\ ix.files[k].exists
    /\ ix.cuts < MaxCuts /\ ix.opens < MaxOpens
    /\ ix' = [ix EXCEPT !.cuts = @ + 1,
                        !.files[j] = ix.files[k],
                        !.written[j] = ix.written[k]]
    /\ UNCHANGED <<engine, rff>>

\* Another media file is put at the source path.
ReplaceSource(src) ==
    /\ ~ix.open
    /\ ix.cuts < MaxCuts /\ ix.opens < MaxOpens
    /\ src # ix.source
    /\ ix' = [ix EXCEPT !.cuts = @ + 1, !.source = src]
    /\ UNCHANGED <<engine, rff>>


\* ------------------------------------------------- repeated fields
\* Frames of an arbitrary index and of a telecined index, calls on an engine,
\* and rows of a picture in the model of the output with repeated fields; the
\* largest pts in the model of the requests by time.
MaxRffFrames == 3
MaxTelecineFrames == 8
MaxRffCalls == 2
MaxHeight == 4
MaxPTS == 8

\* Integer division of C++: the quotient is truncated toward zero.
CDiv(a, b) == IF a >= 0 THEN a \div b ELSE -((-a) \div b)

\* Mutant: a frame counts for repeat_pict + 1 fields.
RECURSIVE NumFields_OneLess(_)
NumFields_OneLess(Frames) ==
    IF Frames = <<>> THEN 0
    ELSE Head(Frames).RepeatPict + 1 + NumFields_OneLess(Tail(Frames))

\* for (auto &Iter : TrackIndex.Frames) NumFields += Iter.RepeatPict + 2;
RECURSIVE NumFields(_)
NumFields(Frames) ==
    IF Frames = <<>> THEN 0
    ELSE Head(Frames).RepeatPict + 2 + NumFields(Tail(Frames))

\* Mutant: the field count is halved without rounding up.
NumRFFFrames_NoRound(Frames) == CDiv(NumFields(Frames), 2)

\* VP.NumRFFFrames = (NumFields + 1) / 2;
NumRFFFrames(Frames) == CDiv(NumFields(Frames) + 1, 2)

\* if (VP.NumFrames == VP.NumRFFFrames) RFFState = rffUnused;
RFFStateAfterOpen(Frames) ==
    IF Len(Frames) = NumRFFFrames(Frames) THEN "rffUnused" ELSE "rffUninitialized"

\* The field table while InitializeRFF fills it: the table, the two
\* cursors, whether an access fell outside the table and whether one of the
\* assertions on the cursors was false.
NewTable(Count) ==
    [Fields |-> [i \in 1..Count |-> [first |-> 0, second |-> 0]],
     DestFieldTop |-> 0, DestFieldBottom |-> 0, outside |-> FALSE, asserted |-> FALSE]

InTable(tb, i) == i >= 0 /\ i < Len(tb.Fields)

\* RFFFields[DestFieldTop++].first = N, RFFFields[DestFieldBottom++].second = N
PutField(tb, DestTop, N) ==
    IF DestTop
    THEN [tb EXCEPT
            !.Fields = IF InTable(tb, tb.DestFieldTop)
                       THEN [@ EXCEPT ![tb.DestFieldTop + 1].first = N] ELSE @,
            !.outside = @ \/ ~InTable(tb, tb.DestFieldTop),
            !.asserted = @ \/ ~(tb.DestFieldTop <= tb.DestFieldBottom),
            !.DestFieldTop = @ + 1]
    ELSE [tb EXCEPT
            !.Fields = IF InTable(tb, tb.DestFieldBottom)
                       THEN [@ EXCEPT ![tb.DestFieldBottom + 1].second = N] ELSE @,
            !.outside = @ \/ ~InTable(tb, tb.DestFieldBottom),
            !.asserted = @ \/ ~(tb.DestFieldTop >= tb.DestFieldBottom),
            !.DestFieldBottom = @ + 1]

\* for (int i = 0; i < RepeatFields; i++) { ...; DestTop = !DestTop; }
RECURSIVE PutFields(_, _, _, _)
PutFields(tb, DestTop, N, Count) ==
    IF Count <= 0 THEN tb
    ELSE PutFields(PutField(tb, DestTop, N), ~DestTop, N, Count - 1)

\* for (auto &Iter : TrackIndex.Frames) { ...; N++; }
RECURSIVE PutFrames(_, _, _)
PutFrames(tb, Frames, N) ==
    IF N >= Len(Frames) THEN tb
    ELSE PutFrames(PutFields(tb, Frames[N + 1].TFF, N, Frames[N + 1].RepeatPict + 2),
                   Frames, N + 1)

\* The padding of the shorter column, lines 1226-1232.
PadTable(tb) ==
    IF tb.DestFieldTop > tb.DestFieldBottom
    THEN [tb EXCEPT
            !.Fields = IF InTable(tb, tb.DestFieldBottom) /\ InTable(tb, tb.DestFieldBottom - 1)
                       THEN [@ EXCEPT ![tb.DestFieldBottom + 1].second =
                                          tb.Fields[tb.DestFieldBottom].second]
                       ELSE @,
            !.outside = @ \/ ~InTable(tb, tb.DestFieldBottom)
                          \/ ~InTable(tb, tb.DestFieldBottom - 1),
            !.DestFieldBottom = @ + 1]
    ELSE IF tb.DestFieldTop < tb.DestFieldBottom
    THEN [tb EXCEPT
            !.Fields = IF InTable(tb, tb.DestFieldTop) /\ InTable(tb, tb.DestFieldTop - 1)
                       THEN [@ EXCEPT ![tb.DestFieldTop + 1].first =
                                          tb.Fields[tb.DestFieldTop].first]
                       ELSE @,
            !.outside = @ \/ ~InTable(tb, tb.DestFieldTop)
                          \/ ~InTable(tb, tb.DestFieldTop - 1),
            !.DestFieldTop = @ + 1]
    ELSE tb

\* BestVideoSource::InitializeRFF, built without assertions: an access
\* outside the table is recorded and leaves the table as it is.
InitializeRFF(Frames, Count) ==
    LET tb == PadTable(PutFrames(NewTable(Count), Frames, 0))
    IN  [tb EXCEPT !.asserted = @ \/ tb.DestFieldTop # tb.DestFieldBottom
                                  \/ tb.DestFieldTop # Count]

\* A picture: the frame object it is (base) and, for the luma plane and a
\* chroma plane of half the height, which row of which source frame each of
\* its rows holds.
PlaneHeight(Plane, Height) == IF Plane = 1 \/ Plane = 2 THEN Height \div 2 ELSE Height
Picture(n, Height) ==
    [base |-> n,
     planes |-> [Plane \in 1..2 |->
                   [h \in 1..PlaneHeight(Plane - 1, Height) |-> [src |-> n, row |-> h - 1]]]]
NoPicture == [base |-> -1, planes |-> <<>>]

\* for (int h = Top ? 0 : 1; h < PlaneHeight; h += 2) memcpy(DstData, SrcData, MinLineSize);
RECURSIVE MergeRows(_, _, _, _)
MergeRows(Dst, Src, h, Height) ==
    IF h >= Height THEN Dst
    ELSE MergeRows([Dst EXCEPT ![h + 1] = Src[h + 1]], Src, h + 2, Height)

\* Mutant: the rows of the other parity are taken.
MergeField_Swapped(Top, Dst, FieldSrc) ==
    [Dst EXCEPT !.planes = [Plane \in 1..2 |->
        MergeRows(Dst.planes[Plane], FieldSrc.planes[Plane], IF Top THEN 1 ELSE 0,
                  Len(Dst.planes[Plane]))]]

\* BestVideoFrame::MergeField
MergeField(Top, Dst, FieldSrc) ==
    [Dst EXCEPT !.planes = [Plane \in 1..2 |->
        MergeRows(Dst.planes[Plane], FieldSrc.planes[Plane], IF Top THEN 0 ELSE 1,
                  Len(Dst.planes[Plane]))]]

\* The state the constructor leaves for an index: the counts of lines
\* 796-807, no field table yet, nothing requested.
RffStart(Frames, Height) ==
    [Frames |-> Frames, Height |-> Height,
     NumFrames |-> Len(Frames), NumRFFFrames |-> NumRFFFrames(Frames),
     RFFState |-> RFFStateAfterOpen(Frames), table |-> NewTable(0),
     N |-> -1, got |-> <<NoPicture, NoPicture>>, out |-> NoPicture, calls |-> 0,
     byTime |-> FALSE, PTS |-> 0, Frame |-> -1, stray |-> FALSE]

\* What a GetFrame(n) inside GetFrameWithRFF returns: the frame, or null.
RffGetFrame(n, ok) ==
    IF ok /\ n >= 0 /\ n < rff.NumFrames THEN Picture(n, rff.Height) ELSE NoPicture

\* What a read outside the field table can find in the two fields.
StrayValues == {-1, 0, 1}

\* const auto &Fields = RFFFields[N]: an entry of the table, or, for an N
\* outside the vector, whatever lies there.
RFFFieldsAt(tb, N) ==
    IF InTable(tb, N) THEN {tb.Fields[N + 1]}
    ELSE {[first |-> a, second |-> b] : a, b \in StrayValues}

\* BestVideoSource::GetFrameWithRFF(N); ok1 and ok2 say whether the first
\* and the second GetFrame of the call deliver a frame.  stray tells
\* whether the call read the field table outside its bounds.
GetFrameWithRFF(N, ok1, ok2) ==
    /\ rff.calls < MaxRffCalls
    /\ \E tb \in {IF rff.RFFState = "rffUninitialized"
                  THEN InitializeRFF(rff.Frames, rff.NumRFFFrames) ELSE rff.table} :
         IF rff.RFFState = "rffUnused"
         THEN \E F \in {RffGetFrame(N, ok1)} :
                rff' = [rff EXCEPT !.calls = @ + 1, !.N = N, !.got = <<F, NoPicture>>,
                                   !.out = F, !.stray = FALSE]
         ELSE \E Fields \in RFFFieldsAt(tb, N) :
                IF Fields.first = Fields.second
                THEN \E F \in {RffGetFrame(Fields.first, ok1)} :
                       rff' = [rff EXCEPT !.calls = @ + 1, !.N = N, !.table = tb,
                                          !.stray = ~InTable(tb, N),
                                          !.got = <<F, NoPicture>>, !.out = F]
                ELSE IF Fields.first < Fields.second
                THEN \E Top \in {RffGetFrame(Fields.first, ok1)} :
                     \E Bottom \in {RffGetFrame(Fields.second, ok2)} :
                       rff' = [rff EXCEPT !.calls = @ + 1, !.N = N, !.table = tb,
                                          !.stray = ~InTable(tb, N),
                                          !.got = <<Top, Bottom>>,
                                          !.out = IF Top = NoPicture \/ Bottom = NoPicture
                                                  THEN NoPicture
                                                  ELSE MergeField(FALSE, Top, Bottom)]
                ELSE \E Bottom \in {RffGetFrame(Fields.second, ok1)} :
                     \E Top \in {RffGetFrame(Fields.first, ok2)} :
                       rff' = [rff EXCEPT !.calls = @ + 1, !.N = N, !.table = tb,
                                          !.stray = ~InTable(tb, N),
                                          !.got = <<Bottom, Top>>,
                                          !.out = IF Top = NoPicture \/ Bottom = NoPicture
                                                  THEN NoPicture
                                                  ELSE MergeField(TRUE, Bottom, Top)]
    /\ UNCHANGED <<engine, ix>>

\* std::lower_bound on the pts of the index: the binary search from First
\* over Count records, by halving.
RECURSIVE LowerBound(_, _, _, _)
LowerBound(Frames, PTS, First, Count) ==
    IF Count <= 0 THEN First
    ELSE LET Half == Count \div 2
             Mid == First + Half
         IN  IF Frames[Mid + 1].PTS < PTS
             THEN LowerBound(Frames, PTS, Mid + 1, Count - Half - 1)
             ELSE LowerBound(Frames, PTS, First, Half)

Abs(x) == IF x < 0 THEN -x ELSE x

\* The frame number GetFrameByTime asks GetFrame for, lines 1273-1280.
FrameByPTS(Frames, PTS) ==
    LET Pos == LowerBound(Frames, PTS, 0, Len(Frames))
    IN  IF Pos = Len(Frames) THEN Len(Frames) - 1
        ELSE IF Pos = 0 \/ Abs(Frames[Pos + 1].PTS - PTS) <= Abs(Frames[Pos].PTS - PTS)
        THEN Pos
        ELSE Pos - 1

\* BestVideoSource::GetFrameByTime, from the pts that line 1270 computes
\* from the time; ok says whether GetFrame delivers the frame.
GetFrameByTime(PTS, ok) ==
    /\ rff.calls < MaxRffCalls
    /\ \E Number \in {FrameByPTS(rff.Frames, PTS)} :
       \E F \in {RffGetFrame(Number, ok)} :
         rff' = [rff EXCEPT !.calls = @ + 1, !.byTime = TRUE, !.PTS = PTS,
                            !.Frame = Number, !.out = F]
    /\ UNCHANGED <<engine, ix>>

\* The records of a set of pts, in increasing order.
RECURSIVE SortedIndex(_)
SortedIndex(S) ==
    IF S = {} THEN <<>>
    ELSE LET least == CHOOSE x \in S : \A y \in S : x <= y
         IN  <<[PTS |-> least, RepeatPict |-> 0, TFF |-> FALSE]>> \o SortedIndex(S \ {least})

\* Indexes with increasing pts.
TimeIndexes ==
    {SortedIndex(S) : S \in {T \in SUBSET (0..MaxPTS) : T # {} /\ Cardinality(T) <= MaxRffFrames}}

\* The indexes an engine can be opened on: the first record has no negative
\* repeat_pict (the constructor throws otherwise).
RffRecords == {[PTS |-> 0, RepeatPict |-> r, TFF |-> t] : r \in -1..2, t \in BOOLEAN}
RffIndexes ==
    {F \in UNION {[1..n -> RffRecords] : n \in 1..MaxRffFrames} : F[1].RepeatPict >= 0}

\* Telecined indexes: repeat_pict r, 0, r, 0, ... with alternating
\* top_field_first.
Telecine(n, r, t) ==
    [i \in 1..n |-> [PTS |-> 0, RepeatPict |-> IF i % 2 = 1 THEN r ELSE 0,
                     TFF |-> IF i % 2 = 1 THEN t ELSE ~t]]
TelecineIndexes == {Telecine(n, r, t) : n \in 1..MaxTelecineFrames, r \in 1..2, t \in BOOLEAN}

NoRff == RffStart(<<[PTS |-> 0, RepeatPict |-> 0, TFF |-> FALSE]>>, MaxHeight)

\* The state the constructor leaves: the index is in place, Decoders[0] is
\* the decoder that delivered one frame to GetVideoProperties.
InitEngine ==
    /\ FrameCache = [Data |-> <<>>, Size |-> 0, MaxSize |-> DefaultMaxSize]
    /\ Decoders = [i \in Slots |-> IF i = 0
                     THEN GetVideoProperties(NewDecoder)
                     ELSE NoDecoder]
    /\ DecoderLastUse = [i \in Slots |-> 0]
    /\ DecoderSequenceNum = 0
    /\ BadSeekLocations = {}
    /\ LinearMode = FALSE
    /\ PreRoll = 0
    /\ th = [t \in Threads |-> Idle]
    /\ calls = 0
    /\ sets = 0
    /\ faults = 0
    /\ outputs = [N \in InRange |-> {}]
    /\ setter = [name |-> "none", arg |-> 0, thrown |-> FALSE]

\* The runs explored: many calls to a well-behaved decoder; a few calls with
\* setter calls in between; a few calls to a misbehaving decoder; one call
\* with setter calls around it to a misbehaving decoder; one call to a
\* decoder that misbehaves whenever it can.
Budgets == {[calls |-> MaxCalls, sets |-> 0, faults |-> 0, unbounded |-> FALSE],
            [calls |-> MaxMixedCalls, sets |-> MaxSets, faults |-> 0, unbounded |-> FALSE],
            [calls |-> MaxMixedCalls, sets |-> 0, faults |-> MaxFaults, unbounded |-> FALSE],
            [calls |-> 1, sets |-> MaxSets, faults |-> MaxFaults, unbounded |-> FALSE],
            [calls |-> 1, sets |-> 0, faults |-> 1, unbounded |-> TRUE]}

Runs == {[dup |-> d, calls |-> b.calls, sets |-> b.sets, faults |-> b.faults,
          unbounded |-> b.unbounded] : d \in BOOLEAN, b \in Budgets}

NoIndexFile == IxStart([size |-> 5, duration |-> 0, frames |-> <<IxFrame(1)>>])

Init == run \in Runs /\ InitEngine /\ callers = {1} /\ ix = NoIndexFile /\ rff = NoRff

Step(t) ==
    \/ LinearPick(t) \/ LinearReset(t) \/ SeekStep(t) \/ MatchStep(t)
    \/ MatchCacheStep(t) \/ LinearStep(t)

Next ==
    \/ \E t \in callers : \E r \in Requests : GetFrame(t, r[1], r[2])
    \/ \E t \in callers : Step(t)
    \/ \E Bytes \in CacheSizeValues : SetMaxCacheSize(Bytes)
    \/ \E Frames \in PreRollValues : SetSeekPreRoll(Frames)

Spec == Init /\ [][Next]_vars

\* Two threads call into one engine: GetFrame takes no lock (lines 885-894),
\* so the steps of two calls interleave.  A step is one decoder operation
\* with the bookkeeping around it.
ThreadRuns == {r \in Runs : r.calls = MaxMixedCalls /\ r.sets = 0 /\ ~r.unbounded /\ ~r.dup}

InitThreads ==
    run \in ThreadRuns /\ InitEngine /\ callers = Threads /\ ix = NoIndexFile /\ rff = NoRff

NextThreads ==
    \/ \E t \in callers : \E r \in Requests : GetFrame(t, r[1], r[2])
    \/ \E t \in callers : Step(t)
    \/ \E t \in callers : NullDecoder(t)

SpecThreads == InitThreads /\ [][NextThreads]_vars

\* The index model: engines are opened and closed on one source path.
InitIndex ==
    /\ run = [dup |-> FALSE, calls |-> 0, sets |-> 0, faults |-> 0, unbounded |-> FALSE]
    /\ InitEngine
    /\ callers = {}
    /\ ix \in {IxStart(src) : src \in IxSources}
    /\ rff = NoRff

NextIndex ==
    \/ \E p \in IxParams : OpenSource(p)
    \/ CloseSource
    \/ \E k \in IxTracks : TruncateFile(k)
    \/ \E k, j \in IxTracks : CopyFile(k, j)
    \/ \E src \in IxSources : ReplaceSource(src)

SpecIndex == InitIndex /\ [][NextIndex]_vars

\* The model of repeated fields: an engine on an index, and calls of
\* GetFrameWithRFF.
InitRFF ==
    /\ run = [dup |-> FALSE, calls |-> 0, sets |-> 0, faults |-> 0, unbounded |-> FALSE]
    /\ InitEngine
    /\ callers = {}
    /\ ix = NoIndexFile
    /\ rff \in {RffStart(F, H) : F \in RffIndexes \cup TelecineIndexes,
                                 H \in {MaxHeight - 1, MaxHeight}}

NextRFF ==
    \E N \in -1..rff.NumRFFFrames : \E ok1, ok2 \in BOOLEAN : GetFrameWithRFF(N, ok1, ok2)

SpecRFF == InitRFF /\ [][NextRFF]_vars

\* The model of requests by time: an engine on an index with increasing
\* pts, and calls of GetFrameByTime.
InitTime ==
    /\ run = [dup |-> FALSE, calls |-> 0, sets |-> 0, faults |-> 0, unbounded |-> FALSE]
    /\ InitEngine
    /\ callers = {}
    /\ ix = NoIndexFile
    /\ rff \in {RffStart(F, MaxHeight) : F \in TimeIndexes}

NextTime == \E PTS \in -1..(MaxPTS + 1) : \E ok \in BOOLEAN : GetFrameByTime(PTS, ok)

SpecTime == InitTime /\ [][NextTime]_vars

\* A caller inside GetFrame keeps running: the call is straight-line code on
\* the caller's thread, it waits for nothing but the decoder's answer.
FairSpec == Spec /\ WF_vars(\E t \in callers : Step(t))

\* The decoder handles alive: those the pool slots own and those just
\* constructed that no slot owns yet.
LiveHandles ==
    Cardinality({i \in Slots : Decoders[i].Open}) + Cardinality({t \in Threads : th[t].Fresh})

\* ------------------------------------------------------------ the claims
Returned(t) == th[t].pc = "idle" /\ th[t].how # "none"

\* C1: every frame GetFrame(N) returns, from the cache, from the match after a
\* seek or from linear decoding, hashes to index[N].hash, whatever the decoder
\* and the setter calls did before.
C1_HashRoundTrip ==
    \A t \in Threads :
        (Returned(t) /\ th[t].ret # NoFrame) => GetHash(th[t].ret) = IndexHash(th[t].retN)

\* A frame was returned straight from the match loop after an earlier anchor
\* had failed and was blacklisted.
C1_Witness ==
    \E t \in Threads :
        /\ Returned(t) /\ th[t].ret # NoFrame /\ th[t].how = "match"
        /\ faults > 0 /\ BadSeekLocations # {}

\* C2 as stated: all calls GetFrame(N) of a run yield one and the same output
\* (a null result is an output too).
C2_SameOutput == \A N \in InRange : Cardinality(outputs[N]) <= 1

\* C2, amended: the frames that the calls GetFrame(N) of a run return all have
\* the same hash; a call may still return null where another returned a frame.
C2_SameHash ==
    \A N \in InRange :
        Cardinality({GetHash(Frame(px)) : px \in outputs[N] \ {NoPix}}) <= 1

\* GetFrame(N) was answered by a decode and later from the cache, with a
\* request for another frame in between.
C2_Witness ==
    \E t \in Threads :
        /\ Returned(t) /\ th[t].how = "cache" /\ calls >= 3
        /\ outputs[th[t].retN] # {}
        /\ \E M \in InRange \ {th[t].retN} : outputs[M] # {}

\* C3: with a decoder that does not misbehave (seeks land on the anchor or on
\* the keyframe before it, frames come in index order) and a stream without
\* duplicate pictures, every in-range request returns a frame.
C3_WellBehaved ==
    \A t \in Threads :
        (/\ Returned(t) /\ th[t].retN >= 0 /\ th[t].retN < NumFrames
         /\ faults = 0 /\ ~run.dup)
            => th[t].ret # NoFrame

\* With a cache budget of 0, a frame was returned by a linear decode on a
\* decoder that had seeked, after an earlier call.
C3_Witness ==
    \E t \in Threads :
        /\ Returned(t) /\ th[t].ret # NoFrame /\ th[t].how = "loop" /\ th[t].retSeeked
        /\ faults = 0 /\ ~run.dup /\ FrameCache.MaxSize = 0 /\ calls = 2

\* The frame number a call step of caller t was made with.
Requested(c) == IF c.pc = "idle" THEN c.retN ELSE c.N

\* C4: GetFrame(N) with N out of range returns null and leaves the cache, the
\* pool, the last-use counters, the blacklist and the linear-mode flag alone.
C4_OutOfRange ==
    [][\A t \in callers :
          (/\ th[t].pc = "idle" /\ calls' = calls + 1
           /\ \A u \in Threads \ {t} : th'[u] = th[u]
           /\ (Requested(th'[t]) < 0 \/ Requested(th'[t]) >= NumFrames))
          => /\ th'[t].pc = "idle" /\ th'[t].ret = NoFrame
             /\ UNCHANGED <<FrameCache, Decoders, DecoderLastUse, DecoderSequenceNum,
                            BadSeekLocations, LinearMode, outputs>>]_vars

\* An out-of-range request was answered while the cache and the pool held
\* something.
C4_Witness ==
    \E t \in Threads :
        /\ Returned(t) /\ th[t].how = "range" /\ th[t].retN = NumFrames
        /\ Len(FrameCache.Data) > 0 /\ Cardinality({i \in Slots : Decoders[i].Open}) > 1

RECURSIVE SumSizes(_)
SumSizes(data) == IF data = <<>> THEN 0 ELSE Head(data).Frame.size + SumSizes(Tail(data))

\* C5: the sizes of the cached frames add up to at most the maximum cache size.
C5_CacheBudget == SumSizes(FrameCache.Data) <= FrameCache.MaxSize

\* After the budget was lowered, a frame larger than the whole budget was
\* decoded, inserted and returned.
C5_Witness ==
    \E t \in Threads :
        /\ Returned(t) /\ th[t].how = "loop" /\ th[t].ret # NoFrame
        /\ sets > 0 /\ FrameCache.MaxSize > 0 /\ th[t].ret.size > FrameCache.MaxSize

\* C6: at most MaxVideoSources decoder handles exist at any point, also while
\* a pool slot is given a new handle.
C6_PoolBound == LiveHandles <= MaxVideoSources

\* C7: every call to GetFrame returns, whatever the decoder does; a seek is
\* retried only on an anchor at least SeekLimit frames below the one that
\* failed and not below SeekLimit, anything else ends in a linear decode.
C7_Terminates ==
    /\ (\E t \in Threads : th[t].pc # "idle") ~> (\A t \in Threads : th[t].pc = "idle")
    /\ [][\A t \in Threads :
            (th[t].pc # "idle" /\ th'[t].pc = "Seek")
                => /\ th'[t].SeekFrame <= th[t].SeekFrame - SeekLimit
                   /\ th'[t].SeekFrame >= SeekLimit]_vars

\* A call returned after two anchors had failed, on a decoder without a
\* budget of misbehaviours.
C7_Witness ==
    \E t \in Threads :
        /\ Returned(t) /\ run.unbounded /\ Cardinality(BadSeekLocations) >= 2

\* C8: an in-range call returns null only after decoding on a decoder that
\* has not seeked failed; a failure on a decoder that has seeked is never the
\* call's result.
C8_NullOnlyAfterLinear ==
    \A t \in Threads :
        (/\ Returned(t) /\ th[t].retN >= 0 /\ th[t].retN < NumFrames
         /\ th[t].ret = NoFrame)
            => ~th[t].retSeeked

\* C9: two calls of GetFrame by two threads are serialized: at no time are
\* both inside the engine.
C9_Serialized == Cardinality({t \in Threads : th[t].pc # "idle"}) <= 1

\* What the missing lock leads to: both callers are working on the same
\* decoder handle.
C9_SharedHandle ==
    \E t, u \in Threads :
        /\ t # u /\ th[t].Index = th[u].Index
        /\ th[t].pc \in {"Seek", "Match", "MatchCache", "LinearLoop"}
        /\ th[u].pc \in {"Seek", "Match", "MatchCache", "LinearLoop"}


\* C10: when the cache file of the track holds what an engine wrote for the
\* same options and the same source size, opening an engine again loads an
\* index equal to the one that was written, with no decode pass and no call
\* of the progress callback, and leaves the cache files as they are.
C10_IndexReuse ==
    [][\A p \in IxParams :
          (/\ ix'.opens = ix.opens + 1 /\ ix'.params = p
           /\ ix.written[p.VideoTrack].valid
           /\ ix.written[p.VideoTrack].params = p
           /\ ix.written[p.VideoTrack].size = ix.source.size)
          => /\ ix'.TrackIndex = ix.written[p.VideoTrack].TI
             /\ ~ix'.decoded /\ ix'.progress = 0
             /\ ix'.files = ix.files]_vars

\* An engine opened on an index of several frames that an earlier engine
\* wrote, with a hardware device named and a frame that has no pts, is
\* top-field-first and is no keyframe.
C10_Witness ==
    /\ ix.open /\ ix.opens >= 2 /\ ~ix.decoded /\ ix.progress = 0
    /\ ix.params.HWDevice # <<>>
    /\ Len(ix.TrackIndex.Frames) >= 2
    /\ ix.written[ix.params.VideoTrack].valid
    /\ ix.written[ix.params.VideoTrack].TI = ix.TrackIndex
    /\ \E i \in 1..Len(ix.TrackIndex.Frames) :
         LET FI == ix.TrackIndex.Frames[i]
         IN  FI.PTS = AV_NOPTS_VALUE /\ FI.TFF /\ ~FI.KeyFrame


\* C11: when the cache file holds a complete write that differs from the
\* current open in the source size, the track, the variable-format flag, the
\* hardware device or the demuxer options, the load is rejected, no record
\* of the file enters the index, and the decode pass runs exactly once: the
\* index is the records of one pass and the progress callback was called
\* once per frame and once at the end.
C11_MismatchRebuilds ==
    [][\A p \in IxParams :
          (/\ ix'.opens = ix.opens + 1 /\ ix'.params = p
           /\ ix.written[p.VideoTrack].valid
           /\ \/ ix.written[p.VideoTrack].size # ix.source.size
              \/ ix.written[p.VideoTrack].params.VideoTrack # p.VideoTrack
              \/ ix.written[p.VideoTrack].params.VariableFormat # p.VariableFormat
              \/ ix.written[p.VideoTrack].params.HWDevice # p.HWDevice
              \/ ix.written[p.VideoTrack].params.LAVFOptions # p.LAVFOptions)
          => /\ ix'.decoded
             /\ ix'.TrackIndex.Frames = ix.source.frames
             /\ ix'.TrackIndex.LastFrameDuration = ix.source.duration
             /\ ix'.progress = Len(ix.source.frames) + 1]_vars

\* An engine opened with variable_format set, on the file an engine without
\* it wrote for the same source, track, device and options; it rebuilt.
C11_Witness ==
    /\ ix.open /\ ix.decoded /\ ix.had.valid
    /\ ix.had.size = ix.source.size
    /\ ix.params.VariableFormat /\ ~ix.had.params.VariableFormat
    /\ ix.had.params = [ix.params EXCEPT !.VariableFormat = FALSE]
    /\ Len(ix.had.TI.Frames) >= 2
    /\ ix.TrackIndex.Frames = ix.source.frames


\* C12: an engine exists after an open exactly when the index has at least
\* one frame and no frame of the index has repeat_pict < 0.
C12_OpenIff ==
    ix.open <=> /\ ix.TrackIndex.Frames # <<>>
                /\ \A i \in 1..Len(ix.TrackIndex.Frames) :
                     ix.TrackIndex.Frames[i].RepeatPict >= 0

\* The opens that do fail: the decode pass produced no frame, or the first
\* record of the index has repeat_pict < 0.
C12_Witness ==
    /\ ix.opens = 2 /\ ~ix.open /\ ix.decoded
    /\ ix.cuts = 0
    /\ \/ ix.TrackIndex.Frames = <<>>
       \/ ix.TrackIndex.Frames[1].RepeatPict < 0


\* C13: for every index whose records all have repeat_pict >= 0, the
\* number of output frames with repeated fields holds all fields, with at
\* most one field of padding: 0 <= 2 * NumRFFFrames - SUM(repeat_pict + 2) <= 1.
C13_FieldConservation ==
    (\A i \in 1..Len(rff.Frames) : rff.Frames[i].RepeatPict >= 0)
        => /\ 2 * rff.NumRFFFrames - NumFields(rff.Frames) >= 0
           /\ 2 * rff.NumRFFFrames - NumFields(rff.Frames) <= 1

\* An index of several frames, all with repeat_pict >= 0, some of them
\* repeated, with an odd number of fields: one field is padded.
C13_Witness ==
    /\ Len(rff.Frames) >= 3
    /\ \A i \in 1..Len(rff.Frames) : rff.Frames[i].RepeatPict >= 0
    /\ \E i \in 1..Len(rff.Frames) : rff.Frames[i].RepeatPict = 1
    /\ 2 * rff.NumRFFFrames = NumFields(rff.Frames) + 1
    /\ rff.calls >= 1


\* The index is telecined with repeat_pict r, 0, r, 0, ... and alternating
\* top_field_first.
IsTelecine(Frames, r) ==
    /\ \A i \in 1..Len(Frames) : Frames[i].RepeatPict = IF i % 2 = 1 THEN r ELSE 0
    /\ \A i \in 1..(Len(Frames) - 1) : Frames[i + 1].TFF # Frames[i].TFF

\* C14 as stated: for a telecined index with repeat_pict 2, 0, 2, 0, ...
\* NumRFFFrames is NumFrames * 5 / 4, whichever way that is rounded.
C14_FiveQuarters ==
    IsTelecine(rff.Frames, 2)
        => /\ 4 * rff.NumRFFFrames - 5 * rff.NumFrames > -4
           /\ 4 * rff.NumRFFFrames - 5 * rff.NumFrames < 4

\* C14: for a telecined index with repeat_pict 2, 0, 2, 0, ... NumRFFFrames
\* is NumFrames * 3 / 2 rounded up; it is NumFrames * 5 / 4 rounded up for a
\* telecined index with repeat_pict 1, 0, 1, 0, ...
C14_ThreeHalves ==
    /\ IsTelecine(rff.Frames, 2)
         => /\ 2 * rff.NumRFFFrames - 3 * rff.NumFrames >= 0
            /\ 2 * rff.NumRFFFrames - 3 * rff.NumFrames <= 1
    /\ IsTelecine(rff.Frames, 1)
         => /\ 4 * rff.NumRFFFrames - 5 * rff.NumFrames >= 0
            /\ 4 * rff.NumRFFFrames - 5 * rff.NumFrames <= 3

\* An engine on a telecined index of 8 frames with repeat_pict 2, 0, ...:
\* 12 output frames, where 8 * 5 / 4 = 10.
C14_Witness ==
    /\ IsTelecine(rff.Frames, 2) /\ rff.NumFrames = 8 /\ rff.NumRFFFrames = 12
    /\ rff.RFFState # "rffUnused"
    /\ rff.calls >= 1


C16_ClosestTiesLeft ==
    rff.byTime =>
        \A i \in 1..(Len(rff.Frames) - 1) :
            (rff.Frames[i].PTS < rff.PTS /\ rff.PTS < rff.Frames[i + 1].PTS)
                => rff.Frame = IF rff.PTS - rff.Frames[i].PTS <= rff.Frames[i + 1].PTS - rff.PTS
                               THEN i - 1
                               ELSE i

\* Between two entries the nearer one is chosen: here the left one, which
\* is strictly nearer.
C16_Witness ==
    /\ rff.byTime /\ rff.out # NoPicture
    /\ \E i \in 1..(Len(rff.Frames) - 1) :
         /\ rff.Frames[i].PTS < rff.PTS /\ rff.PTS < rff.Frames[i + 1].PTS
         /\ rff.PTS - rff.Frames[i].PTS < rff.Frames[i + 1].PTS - rff.PTS
         /\ rff.Frame = i - 1


\* The largest keyframe with a pts at or before position Last, -1 if none
\* from SeekLimit on.
LatestKeyFrame(Last) ==
    LET S == {i \in SeekLimit..Last : i \in KeyFrames /\ IndexPTS(i) # AV_NOPTS_VALUE}
    IN  IF S = {} THEN -1 ELSE CHOOSE i \in S : \A j \in S : j <= i

\* C17: SetSeekPreRoll(f) sets PreRoll to f when 0 <= f <= 40; for f < 0 or
\* f > 40 it throws and leaves PreRoll as it was, and a first seek of a later
\* call, with nothing blacklisted, takes the anchor that the PreRoll before
\* the rejected call gives.
C17_PreRollRange ==
    /\ [][(sets' = sets + 1 /\ setter'.name = "SetSeekPreRoll")
            => IF setter'.arg >= 0 /\ setter'.arg <= 40
               THEN ~setter'.thrown /\ PreRoll' = setter'.arg
               ELSE setter'.thrown /\ PreRoll' = PreRoll]_vars
    /\ [](\A t \in Threads :
            (/\ setter.name = "SetSeekPreRoll" /\ setter.thrown /\ sets = 1
             /\ th[t].pc = "Seek" /\ th[t].Depth = 0 /\ BadSeekLocations = {})
                => th[t].SeekFrame = LatestKeyFrame(th[t].N))

\* A call seeks after SetSeekPreRoll(41) was rejected.
C17_Witness ==
    /\ setter.name = "SetSeekPreRoll" /\ setter.thrown /\ setter.arg > 40 /\ sets = 1
    /\ PreRoll = 0
    /\ \E t \in Threads : th[t].pc = "Seek" /\ th[t].Depth = 0 /\ th[t].SeekFrame >= SeekLimit


\* The positions a seek for frame N may use as its anchor.
Anchors(N) ==
    {i \in 100..(N - PreRoll) :
        i \in KeyFrames /\ IndexPTS(i) # AV_NOPTS_VALUE /\ i \notin BadSeekLocations}

\* C18: the anchor of the first seek of a call for frame N is the largest i
\* with 100 <= i <= N - PreRoll that is a keyframe, has a pts and is not
\* blacklisted; when there is no such i the call does not seek; an anchor is
\* never below 100, and the seek frame a call carries is -1 or >= 100.
C18_SeekFrame ==
    /\ [][\A t \in callers :
            (th[t].pc = "idle" /\ th'[t].pc # "idle")
                => /\ th'[t].pc = "Seek"
                        => /\ th'[t].SeekFrame \in Anchors(th'[t].N)
                           /\ \A i \in Anchors(th'[t].N) : i <= th'[t].SeekFrame
                   /\ Anchors(th'[t].N) = {} => th'[t].pc = "Linear"]_vars
    /\ [](\A t \in callers :
            /\ th[t].SeekFrame = -1 \/ th[t].SeekFrame >= 100
            /\ th[t].pc \in {"Seek", "Match", "MatchCache"} => th[t].SeekFrame >= 100)

\* A first seek whose anchor is not the latest keyframe before N, because
\* that one is blacklisted.
C18_Witness ==
    \E t \in callers :
        /\ th[t].pc = "Seek" /\ th[t].Depth = 0
        /\ LatestKeyFrame(th[t].N) \in BadSeekLocations
        /\ th[t].SeekFrame >= 100 /\ th[t].SeekFrame < LatestKeyFrame(th[t].N)

\* C19: within one GetFrame call at most RetrySeekAttempts + 1 seeks are
\* issued, the k-th of them at depth k - 1 (the depth grows by one on every
\* retry, in the match loop and in the linear decode after a match alike), and
\* a seek that fails at depth RetrySeekAttempts ends in linear mode instead of
\* another seek.
C19_SeekBudget ==
    /\ [](\A t \in callers :
            /\ th[t].Seeks <= RetrySeekAttempts + 1
            /\ th[t].pc = "Seek" => th[t].Depth = th[t].Seeks - 1)
    /\ [][\A t \in callers :
            (/\ th[t].pc \in {"Seek", "Match"}
             /\ th[t].Depth = RetrySeekAttempts
             /\ th'[t].pc = "Linear")
                => LinearMode']_vars

\* Four seeks of one call have failed in the match loop, at depths 0 to 3, and
\* the engine is in linear mode.
C19_Witness ==
    \E t \in callers :
        /\ th[t].pc \in {"Linear", "LinearReset", "LinearLoop"}
        /\ th[t].Seeks = RetrySeekAttempts + 1
        /\ Cardinality(BadSeekLocations) = RetrySeekAttempts + 1
        /\ LinearMode

\* C20: every index in BadSeekLocations is a keyframe index >= 100 that the
\* inserting call had used as its seek anchor; in particular the SeekFrame that
\* GetFrameLinearInternal inserts on a bad frame from a decoder that has
\* seeked is never negative, also on a decoder an earlier call left behind.
C20_BlacklistAnchors ==
    /\ [](BadSeekLocations \subseteq {i \in KeyFrames : i >= SeekLimit})
    /\ [][\A i \in BadSeekLocations' \ BadSeekLocations :
            \E t \in callers : th[t].SeekFrame = i /\ th[t].Seeks > 0]_vars

\* GetFrame(290) has not seeked: it continued on the decoder an earlier call
\* left behind after a seek, got a bad frame, put -1 into the blacklist and
\* dropped the decoder.
C20_Witness ==
    /\ -1 \in BadSeekLocations
    /\ \E t \in callers : /\ th[t].pc = "Linear" /\ th[t].Seeks = 0
                           /\ th[t].N = 290 /\ ~LinearMode

\* C21: BadSeekLocations only grows (SetLinearMode does not empty it), and no
\* seek, in the same or in a later GetFrame call, is issued on an anchor that
\* is in it.
C21_BlacklistKept ==
    /\ [][BadSeekLocations \subseteq BadSeekLocations']_vars
    /\ [](\A t \in callers :
            th[t].pc = "Seek" => th[t].SeekFrame \notin BadSeekLocations)

\* The engine has gone to linear mode after retries of one call on anchors
\* below the blacklisted ones, and the blacklist still holds them.
C21_Witness ==
    /\ LinearMode
    /\ \E t \in callers : /\ th[t].pc = "LinearLoop" /\ th[t].Seeks >= 2
                          /\ Cardinality(BadSeekLocations) >= th[t].Seeks

\* C22: linear mode is never left; in linear mode no call is in SeekAndDecode
\* (no seek is issued), no decoder of the pool has seeked, and no call takes a
\* failure branch that leads to SetLinearMode or to a retry.
C22_LinearForever ==
    /\ [][LinearMode => LinearMode']_vars
    /\ [](LinearMode =>
            /\ \A t \in callers : th[t].pc \notin {"Seek", "Match", "MatchCache"}
            /\ \A i \in Slots : Decoders[i].Open => ~Decoders[i].Seeked)
    /\ [][LinearMode =>
            \A t \in callers :
                ~(th[t].pc \in {"Seek", "Match", "LinearLoop"} /\ th'[t].pc = "Linear")]_vars

\* A call made after the engine went to linear mode decodes on a decoder
\* that has not seeked while another call had already returned.
C22_Witness ==
    /\ LinearMode /\ calls = 2
    /\ \E t \in callers : /\ th[t].pc = "LinearLoop"
                          /\ Decoders[th[t].Index].Open
                          /\ Decoders[th[t].Index].CurrentFrame > 0

\* C23: in linear mode the pool holds at most one decoder.
C23_OneDecoder ==
    LinearMode => Cardinality({i \in Slots : Decoders[i].Open}) <= 1

\* In linear mode a call for a frame before the position of the decoder in
\* the pool has opened a decoder of its own in another slot.
C23_Witness ==
    /\ LinearMode
    /\ \E t \in callers : \E i \in Slots :
          /\ th[t].pc = "LinearLoop" /\ i # th[t].Index
          /\ Decoders[i].Open /\ Decoders[i].CurrentFrame > th[t].N
          /\ Decoders[th[t].Index].Open

\* C24: when Decoder->Seek is rejected the engine is in linear mode with every
\* pool slot empty and the cache empty with size 0 before the linear decode
\* starts; the linear decode then opens a decoder, and that decoder has not
\* seeked and stands at position 0.
C24_RejectedSeek ==
    /\ [][\A t \in callers :
            (th[t].pc = "Seek" /\ th'[t].pc = "Linear")
                => /\ LinearMode'
                   /\ \A i \in Slots : ~Decoders'[i].Open
                   /\ FrameCache'.Data = <<>> /\ FrameCache'.Size = 0]_vars
    /\ [][\A t \in callers :
            /\ (th[t].pc = "Linear" /\ \A i \in Slots : ~Decoders[i].Open)
                  => th'[t].pc \in {"Linear", "LinearReset"}
            /\ (th[t].pc = "LinearReset" /\ th'[t].pc = "LinearLoop")
                  => /\ Decoders'[th'[t].Index].Open
                     /\ ~Decoders'[th'[t].Index].Seeked
                     /\ Decoders'[th'[t].Index].Pos = 0
                     /\ Decoders'[th'[t].Index].CurrentFrame = 0]_vars

\* The first seek of the second call was rejected: the engine is in linear
\* mode, the cache the first call had filled is empty, and the call is about
\* to decode on the only decoder of the pool, a new one.
C24_Witness ==
    /\ LinearMode /\ calls = 2 /\ BadSeekLocations = {}
    /\ FrameCache.Data = <<>>
    /\ \E t \in callers :
          /\ th[t].pc = "LinearLoop" /\ th[t].Seeks = 1
          /\ Decoders[th[t].Index] = NewDecoder
          /\ \A i \in Slots \ {th[t].Index} : ~Decoders[i].Open

\* The index positions at which the whole run of hashes of MF occurs.
RunMatches(MF) ==
    {i \in 0 .. (NumFrames - Len(MF)) :
        \A j \in 1 .. Len(MF) : GetHash(MF[j]) = IndexHash(i + j - 1)}

C26_AcceptedMatch ==
    [][\A t \in callers :
        LET c == th[t]
            d == th'[t]
            Ordinal == c.MatchedN + c.FramesIdx
        IN  /\ (c.pc = "Match" /\ d.pc = "MatchCache")
                  => /\ d.MatchedN <= d.N
                     /\ Decoders'[d.Index].CurrentFrame = d.MatchedN + Len(d.MatchFrames)
            /\ (c.pc = "MatchCache" /\ d.pc = "MatchCache")
                  => /\ d.FramesIdx = c.FramesIdx + 1
                     /\ c.FramesIdx < Len(c.MatchFrames)
                     /\ FrameCache' =
                          IF Ordinal >= c.N - PreRoll
                          THEN CacheFrame(FrameCache, Ordinal, c.MatchFrames[c.FramesIdx + 1])
                          ELSE FrameCache
            /\ (c.pc = "MatchCache" /\ d.pc # "MatchCache")
                  => /\ c.FramesIdx = Len(c.MatchFrames)
                     /\ FrameCache' = FrameCache
                     /\ (d.pc = "idle") = (c.N < c.MatchedN + Len(c.MatchFrames))
                     /\ d.pc = "idle"
                          => /\ d.retN = c.N
                             /\ d.ret = c.MatchFrames[c.N - c.MatchedN + 1]
                     /\ d.pc # "idle"
                          => /\ d.pc = "Linear"
                             /\ Decoders'[c.Index].CurrentFrame <= c.N]_vars

\* With PreRoll 40 the seek for frame 340 was located at 300 = N - PreRoll:
\* the frame is in the cache under 300 and the linear decode is to follow.
C26_Witness ==
    \E t \in callers :
        /\ th[t].pc = "MatchCache" /\ PreRoll > 0
        /\ th[t].FramesIdx = Len(th[t].MatchFrames)
        /\ th[t].MatchedN < th[t].N /\ th[t].MatchedN >= th[t].N - PreRoll
        /\ th[t].RetFrame = NoFrame
        /\ CacheFind(FrameCache, th[t].MatchedN) # 0

\* C27: the linear decode that follows a unique match without frame N runs on
\* the decoder that was sought and matched, whatever else the pool holds.
C27_SameDecoder ==
    \A t \in callers :
        th[t].Sought >= 0
            => /\ th[t].pc # "LinearReset"
               /\ th[t].pc = "LinearLoop" => th[t].Index = th[t].Sought

\* The linear decode after a match runs on another decoder of the pool, one
\* that stands nearer to N than the decoder just located.
C27_Witness ==
    \E t \in callers :
        /\ th[t].pc = "LinearLoop" /\ th[t].Sought >= 0 /\ th[t].Index # th[t].Sought
        /\ Decoders[th[t].Sought].Open /\ Decoders[th[t].Index].Open
        /\ Decoders[th[t].Sought].CurrentFrame < Decoders[th[t].Index].CurrentFrame
        /\ faults = 0

\* C28: a lap of the linear decode toward N on a decoder at position F.
\* With N - PreRoll <= F <= N the cache receives, under F, a frame whose hash
\* is index[F].hash, or the lap ends the decode; with F < N - PreRoll the lap
\* is one skip to N - PreRoll that leaves the cache alone; a lap that found a
\* bad frame caches nothing, returns null on a decoder that has not seeked
\* and blacklists the seek frame and retries on one that has.
C28_LinearLap ==
    [][\A t \in callers :
        LET c == th[t]
            d == th'[t]
            Dec == Decoders[c.Index]
            F == Dec.CurrentFrame
            Going == Dec.Open /\ F <= c.N /\ Dec.DecodeSuccess
        IN  c.pc = "LinearLoop" /\ Going
              => /\ (F >= c.N - PreRoll /\ d.pc = "LinearLoop")
                      => /\ GetHash(Frame(StreamPix(F))) = IndexHash(F)
                         /\ FrameCache' = CacheFrame(FrameCache, F, Frame(StreamPix(F)))
                 /\ F < c.N - PreRoll
                      => /\ FrameCache' = FrameCache /\ d = c
                         /\ Decoders'[c.Index].Open
                               => Decoders'[c.Index].CurrentFrame = c.N - PreRoll
                 /\ d.pc # "LinearLoop"
                      => /\ F >= c.N - PreRoll
                         /\ FrameCache' = FrameCache
                         /\ IF Decoders'[c.Index].Open /\ ~Decoders'[c.Index].Seeked
                            THEN /\ d.pc = "idle" /\ d.ret = NoFrame /\ d.retN = c.N
                                 /\ BadSeekLocations' = BadSeekLocations
                            ELSE /\ d.pc \in {"Seek", "Linear"}
                                 /\ BadSeekLocations' = BadSeekLocations \cup {c.SeekFrame}]_vars

\* With PreRoll 2 a decoder that has not seeked has skipped to 338 in one call,
\* has put 338 and 339 into the cache and is at frame 340.
C28_Witness ==
    \E t \in callers :
        /\ th[t].pc = "LinearLoop" /\ th[t].N = 340 /\ PreRoll = 2
        /\ Decoders[th[t].Index].Open /\ ~Decoders[th[t].Index].Seeked
        /\ Decoders[th[t].Index].CurrentFrame = 340
        /\ CacheFind(FrameCache, 338) # 0 /\ CacheFind(FrameCache, 339) # 0

\* C29: a call GetFrame(N) with GetSeekFrame(N) < 100 starts in the linear
\* decode without a seek frame; a linear decode without a seek frame never
\* leads into a seek, whatever the decoder delivers; and a linear decode that
\* finds no decoder of the pool at or before N opens a new one, which stands
\* at position 0 and has not seeked.
C29_NearStart ==
    [][\A t \in callers :
        LET c == th[t]
            d == th'[t]
        IN  /\ (/\ c.pc = "idle" /\ d.pc # "idle"
                /\ GetSeekFrame(d.N, BadSeekLocations, PreRoll) < SeekLimit)
                  => d.pc = "Linear" /\ d.SeekFrame = -1 /\ d.Seeks = 0
            /\ (c.pc \in {"Linear", "LinearReset", "LinearLoop"} /\ c.SeekFrame < SeekLimit)
                  => d.pc \in {"Linear", "LinearReset", "LinearLoop", "idle"}
            /\ (/\ c.pc = "Linear"
                /\ \A i \in Slots : ~(Decoders[i].Open /\ Decoders[i].CurrentFrame <= c.N))
                  => d.pc = "LinearReset"
            /\ (c.pc = "LinearReset" /\ d.pc = "LinearLoop")
                  => /\ Decoders'[d.Index].Open /\ ~Decoders'[d.Index].Seeked
                     /\ Decoders'[d.Index].Pos = 0
                     /\ Decoders'[d.Index].CurrentFrame = 0]_vars

\* With PreRoll 40, GetFrame(105) has no seek frame (105 < 100 + 40) and
\* decodes on a decoder that has not seeked.
C29_Witness ==
    \E t \in callers :
        /\ th[t].pc = "LinearLoop" /\ th[t].N = 105 /\ PreRoll = MaxPreRoll
        /\ th[t].Seeks = 0 /\ BadSeekLocations = {}
        /\ ~Decoders[th[t].Index].Seeked
        /\ Decoders[th[t].Index].CurrentFrame > 1

\* C30: every block of the cache holds, under a frame number F in
\* 0 .. NumFrames - 1, a frame whose hash is index[F].hash.
C30_CacheHashes ==
    \A k \in 1 .. Len(FrameCache.Data) :
        LET B == FrameCache.Data[k]
        IN  /\ B.FrameNumber >= 0 /\ B.FrameNumber < NumFrames
            /\ B.Frame # NoFrame
            /\ GetHash(B.Frame) = IndexHash(B.FrameNumber)

\* In a stream with runs of equal frames the cache holds the last frame of
\* the stream together with a frame from inside the first run, after a
\* decoder has misbehaved.
C30_Witness ==
    /\ run.dup /\ faults > 0
    /\ CacheFind(FrameCache, NumFrames - 1) # 0
    /\ \E F \in DupFrames \ {100} : CacheFind(FrameCache, F) # 0

\* The frame numbers of a cache list, front first.
RECURSIVE Numbers(_)
Numbers(data) == IF data = <<>> THEN <<>> ELSE <<Head(data).FrameNumber>> \o Numbers(Tail(data))

\* s without its elements equal to x.
RECURSIVE Without(_, _)
Without(s, x) ==
    IF s = <<>> THEN <<>>
    ELSE IF Head(s) = x THEN Without(Tail(s), x)
    ELSE <<Head(s)>> \o Without(Tail(s), x)

IsPrefix(p, s) == Len(p) <= Len(s) /\ p = SubSeq(s, 1, Len(p))

C32_LeastRecentlyUsed ==
    [][LET old == Numbers(FrameCache.Data)
           new == Numbers(FrameCache'.Data)
       IN  /\ \/ new = <<>>
              \/ IsPrefix(new, old)
              \/ IsPrefix(new, <<new[1]>> \o Without(old, new[1]))
           /\ \A t \in callers :
                (th[t].pc = "idle" /\ th'[t].pc = "idle" /\ calls' # calls
                 /\ th'[t].how = "cache")
                    => /\ new = <<th'[t].retN>> \o Without(old, th'[t].retN)
                       /\ Len(new) = Len(old)
                       /\ FrameCache'.Size = FrameCache.Size]_vars

\* Frame 105, inserted first and then hit, was kept when the cache was made
\* smaller, and frames inserted after it were evicted.
C32_Witness ==
    /\ Numbers(FrameCache.Data) = <<105, 109, 108>>
    /\ sets = 1 /\ calls = 2 /\ FrameCache.MaxSize = 3
    /\ setter.name = "SetMaxCacheSize"

\* C33: a GetFrame(N) call answered from the cache opens, advances and seeks
\* no decoder: the pool, the last-use counters, the blacklist, the linear-mode
\* flag, the cache limit and total, and the set of cached frame numbers are
\* what they were; the call returns in the same step.
C33_CacheHit ==
    [][\A t \in callers :
         (th[t].pc = "idle" /\ calls' # calls /\ ~OutOfRange(th'[t].retN)
          /\ th'[t].pc = "idle"
          /\ \E k \in 1 .. Len(FrameCache.Data) :
                FrameCache.Data[k].FrameNumber = th'[t].retN)
            => /\ th'[t].how = "cache"
               /\ Decoders' = Decoders
               /\ DecoderLastUse' = DecoderLastUse
               /\ DecoderSequenceNum' = DecoderSequenceNum
               /\ BadSeekLocations' = BadSeekLocations
               /\ LinearMode' = LinearMode
               /\ {FrameCache'.Data[k].FrameNumber : k \in 1 .. Len(FrameCache'.Data)}
                    = {FrameCache.Data[k].FrameNumber : k \in 1 .. Len(FrameCache.Data)}
               /\ FrameCache'.Size = FrameCache.Size
               /\ FrameCache'.MaxSize = FrameCache.MaxSize]_vars
    /\ [][\A t \in callers :
            (th[t].pc = "idle" /\ calls' # calls /\ th'[t].pc # "idle")
               => \A k \in 1 .. Len(FrameCache.Data) :
                     FrameCache.Data[k].FrameNumber # th'[t].N]_vars

\* A call was answered from a cache of several frames while two decoders
\* were open, one of them after a seek.
C33_Witness ==
    \E t \in callers :
        /\ th[t].pc = "idle" /\ th[t].how = "cache" /\ th[t].retN = 230
        /\ Len(FrameCache.Data) >= 2 /\ FrameCache.Data[1].FrameNumber = 230
        /\ \E i, j \in Slots : i # j /\ Decoders[i].Open /\ Decoders[j].Open
                               /\ Decoders[i].Seeked

\* C34: GetFrameLinearInternal(N) uses a pooled decoder whose frame number is
\* at most N and is the largest among those that qualify (only decoders that
\* never seeked qualify when ForceUnseeked is set).  When none qualifies a
\* new decoder is put in an empty slot if there is one, otherwise in the slot
\* with the smallest last-use counter, whose decoder it replaces.
C34_PoolSelection ==
    [][\A t \in callers :
         LET c == th[t]
             Q == {i \in Slots : /\ Decoders[i].Open
                                 /\ (c.ForceUnseeked => ~Decoders[i].Seeked)
                                 /\ Decoders[i].CurrentFrame <= c.N}
             Index == th'[t].Index
         IN  /\ (c.pc = "Linear" /\ th'[t].pc # "Linear")
                  => /\ Decoders' = Decoders
                     /\ IF Q # {}
                        THEN /\ th'[t].pc = "LinearLoop"
                             /\ Index \in Q
                             /\ \A j \in Q : Decoders[j].CurrentFrame
                                                <= Decoders[Index].CurrentFrame
                        ELSE /\ th'[t].pc = "LinearReset"
                             /\ IF \E j \in Slots : ~Decoders[j].Open
                                THEN ~Decoders[Index].Open
                                ELSE \A j \in Slots :
                                        DecoderLastUse[Index] <= DecoderLastUse[j]
             /\ (c.pc = "LinearReset" /\ th'[t].pc # "LinearReset")
                  => /\ Index = c.Index
                     /\ Decoders' = [Decoders EXCEPT ![Index] = NewDecoder]
                     /\ th'[t].pc = "LinearLoop"]_vars

\* The decoder at frame 231 was taken for frame 290 and the decoder at
\* frame 1 was left alone.
C34_Witness ==
    \E t \in callers : \E j \in Slots :
        /\ th[t].pc = "LinearLoop" /\ th[t].N = 290 /\ j # th[t].Index
        /\ Decoders[th[t].Index].CurrentFrame = 231
        /\ Decoders[j].Open /\ Decoders[j].CurrentFrame = 1
        /\ DecoderLastUse[th[t].Index] = DecoderSequenceNum - 1

\* Every slot was taken and none qualified: the new decoder replaced the one
\* used least recently.
C34_WitnessReplace ==
    \E t \in callers :
        /\ th[t].pc = "LinearReset"
        /\ \A j \in Slots : Decoders[j].Open
                            /\ DecoderLastUse[th[t].Index] <= DecoderLastUse[j]

\* C35: the frame number of a pooled decoder that has never seeked is the
\* number of frames it has handed out or skipped since it was opened, the
\* frame read for the video properties included; and a frame decoded by such
\* a decoder is cached under that number.
C35_FrameCount ==
    /\ [](\A i \in Slots :
            (Decoders[i].Open /\ ~Decoders[i].Seeked)
                => Decoders[i].CurrentFrame = Decoders[i].Delivered)
    /\ [][\A t \in callers :
            LET c == th[t]
                d == Decoders[c.Index]
            IN  (/\ c.pc = "LinearLoop" /\ d.Open /\ ~d.Seeked
                 /\ FrameCache' # FrameCache /\ LinearMode' = LinearMode)
                  => /\ FrameCache'.Data # <<>>
                        => FrameCache'.Data[1].FrameNumber = d.Delivered
                     /\ Decoders'[c.Index].Open
                        => Decoders'[c.Index].Delivered = d.Delivered + 1]_vars

\* A decoder that never seeked has lost a frame of the stream: its frame
\* number is one less than its position in the stream.
C35_Witness ==
    \E i \in Slots : /\ Decoders[i].Open /\ ~Decoders[i].Seeked
                     /\ Decoders[i].CurrentFrame = Decoders[i].Pos - 1
                     /\ Decoders[i].CurrentFrame > 1
                     /\ Decoders[i].Delivered = Decoders[i].CurrentFrame

\* C36: whenever the load of the cache file fails, the index of the engine
\* is the sequence of records of the decode pass: as many records as frames
\* were decoded, none of them read from the rejected file.
C36_RejectedFileLeavesNothing ==
    [][(ix'.opens = ix.opens + 1 /\ ix'.decoded)
          => /\ ix'.TrackIndex.Frames = ix.source.frames
             /\ Len(ix'.TrackIndex.Frames) = ix'.progress - 1]_vars

\* An engine is open on an index of three records for a source of two
\* frames: the first record was read from the rejected file, which ended
\* inside its second record, and the decode pass added its two.
C36_Witness ==
    /\ ix.open /\ ix.decoded /\ ix.cuts = 1 /\ ~ix.had.valid
    /\ Len(ix.source.frames) = 2
    /\ ix.TrackIndex.Frames = <<ix.source.frames[1]>> \o ix.source.frames
    /\ ix.progress = 3

\* C37: the load accepts a cache file only if it holds all its frame
\* records complete: the file is then what a complete write left and the
\* index is the index that was written.  A file that has lost bytes at its
\* end is rejected.
C37_CompleteRecords ==
    [][(ix'.opens = ix.opens + 1 /\ ~ix'.decoded)
          => /\ ix.written[ix'.params.VideoTrack].valid
             /\ ix'.TrackIndex = ix.written[ix'.params.VideoTrack].TI]_vars

\* An engine is open on an index it loaded from a file that ended inside the
\* pts, repeat_pict or flags of its second record: the record is in the
\* index and differs from the frame of the source.
C37_Witness ==
    /\ ix.open /\ ~ix.decoded /\ ix.cuts = 1 /\ ~ix.had.valid /\ ix.progress = 0
    /\ Len(ix.source.frames) = 2 /\ Len(ix.TrackIndex.Frames) = 2
    /\ ix.TrackIndex.Frames[1] = ix.source.frames[1]
    /\ ix.TrackIndex.Frames[2] # ix.source.frames[2]
    /\ ix.TrackIndex.Frames[2].Hash = ix.source.frames[2].Hash

\* C38: for an index whose records all have repeat_pict >= 0, whatever
\* their top-field-first flags, the field table is built with a top field
\* written only while the top cursor is not ahead of the bottom cursor and
\* a bottom field only while the bottom cursor is not ahead, every write is
\* inside the table of NumRFFFrames entries, and after the padding both
\* cursors are NumRFFFrames.
C38_FieldTable ==
    (/\ rff.calls > 0 /\ rff.RFFState # "rffUnused"
     /\ \A i \in 1..Len(rff.Frames) : rff.Frames[i].RepeatPict >= 0)
        => /\ ~rff.table.asserted
           /\ ~rff.table.outside
           /\ rff.table.DestFieldTop = rff.NumRFFFrames
           /\ rff.table.DestFieldBottom = rff.NumRFFFrames

\* Two top-field-first frames with repeat_pict 1: six fields, a table of
\* three entries, and a top field written past its end.
C38_Witness ==
    /\ rff.calls > 0 /\ Len(rff.Frames) = 2 /\ rff.NumRFFFrames = 3
    /\ \A i \in 1..2 : rff.Frames[i].RepeatPict = 1 /\ rff.Frames[i].TFF
    /\ rff.table.outside /\ rff.table.asserted
    /\ rff.table.DestFieldTop = 4 /\ rff.table.DestFieldBottom = 3

\* C39: repeated fields are treated as unused exactly when every record of
\* the index has repeat_pict 0, and then GetFrameWithRFF(M) is GetFrame(M).
C39_UnusedIffNoRepeat ==
    /\ rff.RFFState = "rffUnused"
          <=> \A i \in 1..Len(rff.Frames) : rff.Frames[i].RepeatPict = 0
    /\ (rff.RFFState = "rffUnused" /\ rff.calls > 0)
          => /\ rff.out = rff.got[1]
             /\ rff.got[1] \in {NoPicture, Picture(rff.N, rff.Height)}

\* Frame 0 has a repeated field and frame 1 has repeat_pict -1: four
\* fields for two frames, and GetFrameWithRFF(1) returned frame 1 as it is.
C39_Witness ==
    /\ Len(rff.Frames) = 2
    /\ rff.Frames[1].RepeatPict = 1 /\ rff.Frames[2].RepeatPict = -1
    /\ rff.RFFState = "rffUnused" /\ rff.NumRFFFrames = rff.NumFrames
    /\ rff.calls > 0 /\ rff.N = 1 /\ rff.out = Picture(1, rff.Height)

\* C40: with repeated fields in use, GetFrameWithRFF(M) for M < 0 or
\* M >= NumRFFFrames returns null, read the field table nowhere outside its
\* bounds, and got no frame from the engine (so that cache, pool and
\* blacklist are as before).
C40_OutOfRangeRFF ==
    (/\ rff.calls > 0 /\ rff.RFFState # "rffUnused"
     /\ (rff.N < 0 \/ rff.N >= rff.NumRFFFrames))
        => /\ rff.out = NoPicture
           /\ ~rff.stray
           /\ rff.got = <<NoPicture, NoPicture>>

\* GetFrameWithRFF(NumRFFFrames) read past the end of the field table, found
\* the frame numbers 1 and 0 there and returned frame 0 with the even rows of
\* frame 1.
C40_Witness ==
    /\ rff.calls > 0 /\ rff.RFFState # "rffUnused" /\ rff.N = rff.NumRFFFrames
    /\ rff.stray /\ ~rff.table.outside
    /\ rff.got = <<Picture(0, rff.Height), Picture(1, rff.Height)>>
    /\ rff.out = MergeField(TRUE, Picture(0, rff.Height), Picture(1, rff.Height))

====
